---- MODULE Spec2Model ----
(***************************************************************************)
(* GBA centrality: the dense matrix-power scoring pipeline                 *)
(* (scripts/GBA_centrality_PR.py), the leave-one-out evaluator             *)
(* (scripts/leave_one_out.py) and the SIF network parser (data_parser.py). *)
(*                                                                         *)
(* Numbers: numpy's floating-point values are modelled as exact rationals  *)
(* <<numerator, denominator>> in lowest terms, so equality of two values   *)
(* is equality of the pairs; rounding is outside the model.  The uint64    *)
(* matrix powers are plain integers (no entry comes near 2^64 here).       *)
(* Nodes of the networkx graph are named by their position 0..n-1 in       *)
(* interactome.nodes().  A python list is a sequence: list index k is      *)
(* sequence position k+1.                                                  *)
(***************************************************************************)
EXTENDS Integers, Sequences, FiniteSets, TLC

\* ------------------------------------------------------------- bounds
\* largest number of nodes of a network
MaxN == 3
\* largest d_max
MaxD == 3
\* largest number of lines read from the SIF file
MaxLines == 2

\* lines of the causal genes file
MaxCausalLines == 2

\* lines of the SIF file and of the Uniprot file (header included) in a run of main
MaxMainLines == 1
MaxUniprotLines == 2

\* causal genes of a leave-one-out run by concurrent workers
MaxWorkers == 2

VARIABLES
    interactome,        \* networkx.Graph: [n |-> number of nodes, edges |-> set of {u, v}]
    d_max,              \* --d_max
    alpha,              \* --alpha, a rational
    causal_genes,       \* dict key=ENSG value=1, as the sequence of its keys in dict order
    adjacency_matrices, \* list returned by get_adjacency_matrices
    scores,             \* dict returned by the last calculate_scores call
    loo_keys,           \* leave_one_out: list(causal_genes.keys()), the list iterated
    loo_i,              \* leave_one_out: position of the for loop in loo_keys
    left_out,           \* leave_one_out: loop variable
    ranks_left_out,     \* leave_one_out: dict of ranks
    pc,                 \* position in main()
    \* data_parser.parse_interactome (edge-list variant)
    weighted,           \* --weighted
    directed,           \* --directed
    lines_read,         \* the lines of the SIF file read so far
    ENSG2idx,           \* dict key=ENSG, value=index
    num_nodes,
    num_edges,
    edge_list,          \* the list `interactome` of (source, dest, weight)
    edge2weight,        \* dict key="source&dest" (here <<source, dest>>), value=weight
    ppc,                \* "reading" | "raised" | "returned"
    \* data_parser.parse_uniprot, parse_causal_genes, scores_to_TSV; GBA_centrality.main
    ENSG2gene,          \* dict key=ENSG, value=geneName
    gene2ENSG,          \* dict key=gene, value=ENSG
    causal_lines_read,  \* the lines of the causal genes file read so far
    causal_genes_list,  \* parse_causal_genes: the list `causal_genes` of floats
    num_found_genes,
    scoresList,         \* GBA_centrality.calculate_scores: the list returned
    stdout,             \* the lines printed so far
    cpc,                \* parse_causal_genes: "reading" | "raised" | "returned"
    mpc,                \* GBA_centrality.main: the call it is about to make
    \* functions applied on their own
    tpc,                \* scores_to_TSV: "calling" | "raised" | "returned" | "returned_sorted"
    \* leave-one-out iterations run by concurrent workers, one per causal gene
    w_pc,               \* worker -> "del" | "scores" | "rank" | "done"
    w_causal_genes,     \* worker -> its own copy of the dict causal_genes
    w_scores,           \* worker -> the scores of its call of calculate_scores
    \* Interactome/interaction_parser.py: parse_uniprot_file, parse_interaction_file
    uniprot_lines_read, \* the data lines of the Uniprot table read so far
    primAC2taxID,       \* dict key=Primary AC, value=TaxID
    secAC2primAC,       \* dict key=Secondary AC, value=Primary AC or "-1"
    geneID2primAC,      \* dict key=GeneID, value=Primary AC or "-1"
    geneName2primAC,    \* dict key=Gene Name, value=Primary AC or "-1"
    proteins,           \* parse_interaction_file: the list `proteins` of a line
    upc,                \* "header" | "reading" | "exited" | "returned" | "resolved"
    \* Build_Interactome.py / build_interactome.py: Interactome_Uniprot2ENSG
    PPIs,               \* the list of interactions, each (proteinA, proteinB)
    Uniprot2ENSG,       \* dict key=Primary AC, value=ENSG
    proteinHubs,        \* dict key=Primary AC, value=1, as the set of its keys
    ppi_i,              \* position of `for PPI in PPIs`
    bpc                 \* "start" | "loop" | "raised" | "done"

scoreVars == <<interactome, d_max, alpha, causal_genes, adjacency_matrices, scores,
               loo_keys, loo_i, left_out, ranks_left_out, pc>>

parseVars == <<weighted, directed, lines_read, ENSG2idx, num_nodes, num_edges,
               edge_list, edge2weight, ppc>>

mainVars == <<ENSG2gene, gene2ENSG, causal_lines_read, causal_genes_list,
              num_found_genes, scoresList, stdout, cpc, mpc>>

uniprotFileVars == <<uniprot_lines_read, primAC2taxID, secAC2primAC, geneID2primAC,
                     geneName2primAC, proteins, upc>>

buildVars == <<PPIs, Uniprot2ENSG, proteinHubs, ppi_i, bpc>>

toolVars == <<uniprotFileVars, buildVars>>

auxVars == <<tpc, w_pc, w_causal_genes, w_scores, toolVars>>

\* the scripts of Interactome/ are not running
ToolIdle ==
    /\ uniprot_lines_read = <<>>
    /\ primAC2taxID = <<>>
    /\ secAC2primAC = <<>>
    /\ geneID2primAC = <<>>
    /\ geneName2primAC = <<>>
    /\ proteins = <<>>
    /\ upc = "idle"
    /\ PPIs = <<>>
    /\ Uniprot2ENSG = <<>>
    /\ proteinHubs = {}
    /\ ppi_i = 0
    /\ bpc = "idle"

\* the functions applied on their own are not running
AuxIdle ==
    /\ tpc = "idle"
    /\ w_pc = <<>>
    /\ w_causal_genes = <<>>
    /\ w_scores = <<>>
    /\ ToolIdle

vars == <<scoreVars, parseVars, mainVars, auxVars>>

\* ------------------------------------------------------------- rationals
RECURSIVE GCD(_, _)
GCD(a, b) == IF b = 0 THEN a ELSE GCD(b, a % b)

\* the value n/d (n >= 0, d > 0) in lowest terms
Rat(n, d) == LET g == GCD(n, d) IN <<n \div g, d \div g>>

RZero == <<0, 1>>
ROne == <<1, 1>>
RAdd(x, y) == Rat(x[1] * y[2] + y[1] * x[2], x[2] * y[2])
RMul(x, y) == Rat(x[1] * y[1], x[2] * y[2])
RLess(x, y) == x[1] * y[2] < y[1] * x[2]

\* alpha ** d
RECURSIVE RPow(_, _)
RPow(x, d) == IF d = 0 THEN ROne ELSE RMul(x, RPow(x, d - 1))

\* values of --alpha tried
Alphas == {<<1, 2>>, <<3, 4>>}

\* ------------------------------------------------------------- helpers
Range(s) == {s[k] : k \in DOMAIN s}

Nodes(G) == 0 .. (G.n - 1)

\* a numpy array held by value: the function f with every element computed
ndarray(f) == IF f = f THEN f ELSE f

\* sum of f[0] .. f[k]
RECURSIVE SumInt(_, _)
SumInt(f, k) == IF k < 0 THEN 0 ELSE f[k] + SumInt(f, k - 1)

RECURSIVE SumRat(_, _)
SumRat(f, k) == IF k < 0 THEN RZero ELSE RAdd(SumRat(f, k - 1), f[k])

\* ------------------------------------------------------------- get_adjacency_matrices
\* networkx.to_scipy_sparse_array(interactome, dtype=uint64): the 0/1 adjacency matrix
to_scipy_sparse_array(G) ==
    [i \in Nodes(G) |-> [j \in Nodes(G) |-> IF {i, j} \in G.edges THEN 1 ELSE 0]]

\* numpy.identity(n, dtype=uint64)
identity(n) == [i \in 0 .. (n - 1) |-> [j \in 0 .. (n - 1) |-> IF i = j THEN 1 ELSE 0]]

\* X @ Y for n x n integer matrices
matmul(X, Y, n) ==
    [i \in 0 .. (n - 1) |->
        [j \in 0 .. (n - 1) |->
            SumInt([k \in 0 .. (n - 1) |-> X[i][k] * Y[k][j]], n - 1)]]

\* variant: the diagonal is left as it is
fill_diagonal_skipped(X, n) == X

\* numpy.fill_diagonal(res, val=0)
fill_diagonal(X, n) ==
    [i \in 0 .. (n - 1) |-> [j \in 0 .. (n - 1) |-> IF i = j THEN 0 ELSE X[i][j]]]

\* res.astype(numpy.float32)
astype_float32(X, n) == [i \in 0 .. (n - 1) |-> [j \in 0 .. (n - 1) |-> Rat(X[i][j], 1)]]

\* row_sum = res_norm.sum(axis=1); row_sum[row_sum == 0] = 1
row_sum(X, n) ==
    [i \in 0 .. (n - 1) |->
        LET s == SumInt(X[i], n - 1) IN IF s = 0 THEN 1 ELSE s]

\* variant: res_norm /= row_sum, which divides column j by row_sum[j]
row_normalize_wrong_axis(X, n) ==
    LET rs == row_sum(X, n)
    IN  [i \in 0 .. (n - 1) |-> [j \in 0 .. (n - 1) |-> Rat(X[i][j], rs[j])]]

\* variant: a row without any entry is spread evenly over the n nodes
row_normalize_dangling_uniform(X, n) ==
    [i \in 0 .. (n - 1) |->
        LET s == SumInt(X[i], n - 1)
        IN  [j \in 0 .. (n - 1) |-> IF s = 0 THEN Rat(1, n) ELSE Rat(X[i][j], s)]]

\* variant: the rows are not divided by their sums
row_normalize_skipped(X, n) == astype_float32(X, n)

\* res_norm_T = res_norm.T; res_norm_T /= row_sum : divides row i by row_sum[i]
row_normalize(X, n) ==
    LET rs == row_sum(X, n)
    IN  [i \in 0 .. (n - 1) |-> [j \in 0 .. (n - 1) |-> Rat(X[i][j], rs[i])]]

\* the for loop over power; res is the matrix left by the previous iteration,
\* that is, after numpy.fill_diagonal changed it in place
RECURSIVE power_loop(_, _, _, _, _, _)
power_loop(A, n, res, mats, power, dmax) ==
    IF power > dmax THEN mats
    ELSE LET res1 == matmul(res, A, n)
             res2 == fill_diagonal(res1, n)
             res_norm == row_normalize(res2, n)
         IN  power_loop(A, n, ndarray(res2), Append(mats, res_norm), power + 1, dmax)

\* variant: the matrix at index 0 is processed like the others
get_adjacency_matrices_no_identity(G, dmax) ==
    LET A == to_scipy_sparse_array(G)
        res == identity(G.n)
    IN  power_loop(A, G.n, res, <<row_normalize(fill_diagonal(res, G.n), G.n)>>, 1, dmax)

get_adjacency_matrices(G, dmax) ==
    LET A == to_scipy_sparse_array(G)
        res == identity(G.n)
    IN  power_loop(A, G.n, res, <<astype_float32(res, G.n)>>, 1, dmax)

\* ------------------------------------------------------------- calculate_scores
\* causal_genes_vec: 1 if causal gene, 0 otherwise, ordered as interactome.nodes()
causal_genes_vec(G, causal) ==
    [ni \in Nodes(G) |-> IF ni \in Range(causal) THEN 1 ELSE 0]

\* A.dot(causal_genes_vec)
dot(M, vec, n) ==
    [i \in 0 .. (n - 1) |->
        SumRat([j \in 0 .. (n - 1) |-> RMul(M[i][j], Rat(vec[j], 1))], n - 1)]

\* for d in range(first, len(adjacency_matrices)): scores_vec += alpha ** d * A.dot(vec)
RECURSIVE scores_loop(_, _, _, _, _, _)
scores_loop(mats, vec, a, n, d, scores_vec) ==
    IF d >= Len(mats) THEN scores_vec
    ELSE LET A == mats[d + 1]
             Av == dot(A, vec, n)
         IN  scores_loop(mats, vec, a, n, d + 1,
                 ndarray([i \in 0 .. (n - 1) |->
                              RAdd(scores_vec[i], RMul(RPow(a, d), Av[i]))]))

\* variant: range(1, len(adjacency_matrices))
calculate_scores_from_1(G, mats, causal, a) ==
    scores_loop(mats, causal_genes_vec(G, causal), a, G.n, 1, [i \in Nodes(G) |-> RZero])

calculate_scores(G, mats, causal, a) ==
    scores_loop(mats, causal_genes_vec(G, causal), a, G.n, 0, [i \in Nodes(G) |-> RZero])

\* variant: A *= alpha ** d, which scales the matrices of the caller in place
calculate_scores_call_scales_in_place(G, mats, causal, a) ==
    [scores |-> calculate_scores(G, mats, causal, a),
     interactome |-> G,
     adjacency_matrices |->
         [k \in 1 .. Len(mats) |->
             [i \in Nodes(G) |-> [j \in Nodes(G) |-> RMul(RPow(a, k - 1), mats[k][i][j])]]],
     causal_genes |-> causal]

\* variant: the causal genes are popped from the dict of the caller as they are used
calculate_scores_call_pops_seeds(G, mats, causal, a) ==
    [scores |-> calculate_scores(G, mats, causal, a),
     interactome |-> G,
     adjacency_matrices |-> mats,
     causal_genes |-> <<>>]

\* a call of calculate_scores: the value it returns, and its three mutable arguments
\* (python passes the objects themselves) as the call leaves them: the body only reads
\* them, scores_vec is a new array
calculate_scores_call(G, mats, causal, a) ==
    [scores |-> calculate_scores(G, mats, causal, a),
     interactome |-> G,
     adjacency_matrices |-> mats,
     causal_genes |-> causal]

\* ------------------------------------------------------------- leave_one_out
\* scores.keys(): the nodes in the order of interactome.nodes()
keys(G) == [k \in 1 .. G.n |-> k - 1]

\* variant: the held-out gene is left in the dict
dict_del_skipped(d, k) == d

\* del causal_genes[left_out]
dict_del(d, k) == SelectSeq(d, LAMBDA e : e # k)

\* variant: the key is not put back
dict_set_skipped(d, k) == d

\* causal_genes[left_out] = 1 : a new key goes to the end of the dict
dict_set(d, k) == IF k \in Range(d) THEN d ELSE Append(d, k)

\* one insertion of a stable descending sort: x goes behind every element whose
\* key is greater than or equal to its own
RECURSIVE insert_desc(_, _, _)
insert_desc(s, x, key) ==
    IF s = <<>> THEN <<x>>
    ELSE IF RLess(key[Head(s)], key[x]) THEN <<x>> \o s
    ELSE <<Head(s)>> \o insert_desc(Tail(s), x, key)

RECURSIVE insert_asc(_, _, _)
insert_asc(s, x, key) ==
    IF s = <<>> THEN <<x>>
    ELSE IF RLess(key[x], key[Head(s)]) THEN <<x>> \o s
    ELSE <<Head(s)>> \o insert_asc(Tail(s), x, key)

RECURSIVE sort_asc(_, _, _)
sort_asc(ks, key, k) ==
    IF k = 0 THEN <<>> ELSE insert_asc(sort_asc(ks, key, k - 1), ks[k], key)

RECURSIVE sort_desc(_, _, _)
sort_desc(ks, key, k) ==
    IF k = 0 THEN <<>> ELSE insert_desc(sort_desc(ks, key, k - 1), ks[k], key)

\* variant: an ascending stable sort, then reversed: equal keys come out in reverse order
sorted_then_reversed(ks, key) ==
    LET a == sort_asc(ks, key, Len(ks))
    IN  [k \in 1 .. Len(a) |-> a[Len(a) + 1 - k]]

\* sorted(ks, key=lambda item: key[item], reverse=True): descending, and stable
\* (python keeps the original order of elements with equal keys under reverse=True)
sorted_reverse(ks, key) == sort_desc(ks, key, Len(ks))

\* variant: 1-based position
list_index_from_1(s, x) ==
    IF x \in Range(s) THEN CHOOSE k \in 1 .. Len(s) : s[k] = x /\ \A m \in 1 .. (k - 1) : s[m] # x
    ELSE -1

\* s.index(x): 0-based position of the first x, -1 for python's ValueError
list_index(s, x) ==
    IF x \in Range(s)
    THEN (CHOOSE k \in 1 .. Len(s) : s[k] = x /\ \A m \in 1 .. (k - 1) : s[m] # x) - 1
    ELSE -1

\* ranks_left_out[left_out] = rank_left_out
dict_put(d, k, v) == [x \in (DOMAIN d) \cup {k} |-> IF x = k THEN v ELSE d[x]]

\* ------------------------------------------------------------- inputs
\* the undirected graphs without self-interactions on n nodes
Graphs ==
    UNION {[n : {nn},
            edges : SUBSET {e \in SUBSET (0 .. (nn - 1)) : Cardinality(e) = 2}]
           : nn \in 1 .. MaxN}

\* the dicts of causal genes present in the interactome, in every key order
InjSeqs(S) ==
    UNION {{q \in [1 .. m -> S] : \A a, b \in 1 .. m : a # b => q[a] # q[b]}
           : m \in 0 .. Cardinality(S)}

\* ------------------------------------------------------------- main
Init ==
    /\ interactome \in Graphs
    /\ d_max \in 0 .. MaxD
    /\ alpha \in Alphas
    /\ causal_genes \in InjSeqs(Nodes(interactome))
    /\ adjacency_matrices = <<>>
    /\ scores = <<>>
    /\ loo_keys = <<>>
    /\ loo_i = 0
    /\ left_out = -1
    /\ ranks_left_out = <<>>
    /\ pc = "parsed"
    /\ weighted = FALSE
    /\ directed = FALSE
    /\ lines_read = <<>>
    /\ ENSG2idx = <<>>
    /\ num_nodes = 0
    /\ num_edges = 0
    /\ edge_list = <<>>
    /\ edge2weight = <<>>
    /\ ppc = "idle"
    /\ ENSG2gene = <<>>
    /\ gene2ENSG = <<>>
    /\ causal_lines_read = <<>>
    /\ causal_genes_list = <<>>
    /\ num_found_genes = 0
    /\ scoresList = <<>>
    /\ stdout = <<>>
    /\ cpc = "idle"
    /\ mpc = "idle"
    /\ AuxIdle

\* adjacency_matrices = get_adjacency_matrices(interactome, d_max)
GetAdjacencyMatrices ==
    /\ pc = "parsed"
    /\ adjacency_matrices' = get_adjacency_matrices(interactome, d_max)
    /\ pc' = "built"
    /\ UNCHANGED <<interactome, d_max, alpha, causal_genes, scores,
                   loo_keys, loo_i, left_out, ranks_left_out>>
    /\ UNCHANGED parseVars
    /\ UNCHANGED mainVars
    /\ UNCHANGED auxVars

\* GBA_centrality_PR.main: scores = calculate_scores(...)
CalculateScores ==
    /\ pc = "built"
    /\ \E r \in {calculate_scores_call(interactome, adjacency_matrices, causal_genes, alpha)} :
           /\ scores' = r.scores
           /\ interactome' = r.interactome
           /\ adjacency_matrices' = r.adjacency_matrices
           /\ causal_genes' = r.causal_genes
    /\ pc' = "scored"
    /\ UNCHANGED <<d_max, alpha, loo_keys, loo_i, left_out, ranks_left_out>>
    /\ UNCHANGED parseVars
    /\ UNCHANGED mainVars
    /\ UNCHANGED auxVars

\* leave_one_out.main: entry of leave_one_out, the for loop takes its list of keys
LeaveOneOut ==
    /\ pc = "built"
    /\ ranks_left_out' = <<>>
    /\ loo_keys' = causal_genes
    /\ loo_i' = 1
    /\ pc' = "loo_for"
    /\ UNCHANGED <<interactome, d_max, alpha, causal_genes, adjacency_matrices,
                   scores, left_out>>
    /\ UNCHANGED parseVars
    /\ UNCHANGED mainVars
    /\ UNCHANGED auxVars

\* for left_out in ...: del causal_genes[left_out]
LeaveOut ==
    /\ pc = "loo_for"
    /\ loo_i <= Len(loo_keys)
    /\ left_out' = loo_keys[loo_i]
    /\ causal_genes' = dict_del(causal_genes, loo_keys[loo_i])
    /\ pc' = "loo_scores"
    /\ UNCHANGED <<interactome, d_max, alpha, adjacency_matrices, scores,
                   loo_keys, loo_i, ranks_left_out>>
    /\ UNCHANGED parseVars
    /\ UNCHANGED mainVars
    /\ UNCHANGED auxVars

\* scores = GBA_centrality_PR.calculate_scores(...)
LeaveOneOutScores ==
    /\ pc = "loo_scores"
    /\ \E r \in {calculate_scores_call(interactome, adjacency_matrices, causal_genes, alpha)} :
           /\ scores' = r.scores
           /\ interactome' = r.interactome
           /\ adjacency_matrices' = r.adjacency_matrices
           /\ causal_genes' = r.causal_genes
    /\ pc' = "loo_rank"
    /\ UNCHANGED <<d_max, alpha, loo_keys, loo_i, left_out, ranks_left_out>>
    /\ UNCHANGED parseVars
    /\ UNCHANGED mainVars
    /\ UNCHANGED auxVars

\* save the left-out rank, put the left-out gene back
LeaveOneOutRank ==
    /\ pc = "loo_rank"
    /\ LET results_sorted == sorted_reverse(keys(interactome), scores)
           idx == list_index(results_sorted, left_out)
       IN  IF idx < 0
           THEN /\ pc' = "error"
                /\ UNCHANGED <<ranks_left_out, causal_genes, loo_i>>
           ELSE /\ ranks_left_out' = dict_put(ranks_left_out, left_out, idx + 1)
                /\ causal_genes' = dict_set(causal_genes, left_out)
                /\ loo_i' = loo_i + 1
                /\ pc' = "loo_for"
    /\ UNCHANGED <<interactome, d_max, alpha, adjacency_matrices, scores,
                   loo_keys, left_out>>
    /\ UNCHANGED parseVars
    /\ UNCHANGED mainVars
    /\ UNCHANGED auxVars

\* return ranks_left_out
LeaveOneOutReturn ==
    /\ pc = "loo_for"
    /\ loo_i > Len(loo_keys)
    /\ pc' = "loo_done"
    /\ UNCHANGED <<interactome, d_max, alpha, causal_genes, adjacency_matrices,
                   scores, loo_keys, loo_i, left_out, ranks_left_out>>
    /\ UNCHANGED parseVars
    /\ UNCHANGED mainVars
    /\ UNCHANGED auxVars

Next ==
    \/ GetAdjacencyMatrices
    \/ CalculateScores
    \/ LeaveOneOut
    \/ LeaveOut
    \/ LeaveOneOutScores
    \/ LeaveOneOutRank
    \/ LeaveOneOutReturn

Spec == Init /\ [][Next]_vars

\* ------------------------------------------------------------- parse_interactome
\* node identifiers found in the SIF file
NodeIds == {"ENSG1", "ENSG2", "ENSG3"}

\* second fields found in the SIF file
WeightOrTypes == {"0.5", "1", "1.0", "2.5", "nan", "pp"}

\* a line of the file after line.rstrip().split('\t'): nf is the number of fields
BadLine == [nf |-> 2, node1 |-> "", weight_or_type |-> "", node2 |-> ""]

Lines ==
    [nf : {3}, node1 : NodeIds, weight_or_type : WeightOrTypes, node2 : NodeIds]
        \cup {BadLine}

\* float('nan'), the value that differs from every value, itself included
NaN == <<0, 0>>

\* whether float(tok) succeeds
is_float(tok) == tok \in {"0.5", "1", "1.0", "2.5", "nan"}

\* float(tok)
float(tok) ==
    CASE tok = "0.5" -> <<1, 2>>
      [] tok \in {"1", "1.0"} -> <<1, 1>>
      [] tok = "2.5" -> <<5, 2>>
      [] tok = "nan" -> NaN

\* x != y on python floats
float_ne(x, y) == x = NaN \/ y = NaN \/ x # y

\* variant: node2 is given its identifier before node1
assign_ids_dest_first(E, n, node1, node2) ==
    LET E1 == IF node2 \in DOMAIN E THEN E ELSE dict_put(E, node2, n)
        n1 == IF node2 \in DOMAIN E THEN n ELSE n + 1
        E2 == IF node1 \in DOMAIN E1 THEN E1 ELSE dict_put(E1, node1, n1)
        n2 == IF node1 \in DOMAIN E1 THEN n1 ELSE n1 + 1
    IN  [ENSG2idx |-> E2, num_nodes |-> n2]

\* assign unique identifiers to nodes
assign_ids(E, n, node1, node2) ==
    LET E1 == IF node1 \in DOMAIN E THEN E ELSE dict_put(E, node1, n)
        n1 == IF node1 \in DOMAIN E THEN n ELSE n + 1
        E2 == IF node2 \in DOMAIN E1 THEN E1 ELSE dict_put(E1, node2, n1)
        n2 == IF node2 \in DOMAIN E1 THEN n1 ELSE n1 + 1
    IN  [ENSG2idx |-> E2, num_nodes |-> n2]

\* variant: source and dest are not swapped
reverse_edge_not_swapped(source, dest, weight) == <<source, dest, weight>>

\* the reverse edge (ENSG2idx[node2], ENSG2idx[node1], weight)
reverse_edge(source, dest, weight) == <<dest, source, weight>>

\* variant: the reverse edge is appended without looking it up in edge2weight
create_edges_reverse_unchecked(st, source, dest, weight, dir) ==
    LET edgeID == <<source, dest>>
    IN  IF edgeID \in DOMAIN st.edge2weight
        THEN IF float_ne(st.edge2weight[edgeID], weight)
             THEN [st EXCEPT !.err = TRUE]
             ELSE st
        ELSE LET st1 == [st EXCEPT !.edge_list = Append(@, <<source, dest, weight>>),
                                   !.num_edges = @ + 1,
                                   !.edge2weight = dict_put(@, edgeID, weight)]
                 revEdgeID == <<dest, source>>
             IN  IF dir THEN st1
                 ELSE [st1 EXCEPT !.edge_list = Append(@, reverse_edge(source, dest, weight)),
                                  !.num_edges = @ + 1,
                                  !.edge2weight = dict_put(@, revEdgeID, weight)]

\* variant: an interaction seen before keeps its first weight, whatever the new one
create_edges_first_weight_kept(st, source, dest, weight, dir) ==
    LET edgeID == <<source, dest>>
    IN  IF edgeID \in DOMAIN st.edge2weight THEN st
        ELSE LET st1 == [st EXCEPT !.edge_list = Append(@, <<source, dest, weight>>),
                                   !.num_edges = @ + 1,
                                   !.edge2weight = dict_put(@, edgeID, weight)]
                 revEdgeID == <<dest, source>>
             IN  IF dir \/ revEdgeID \in DOMAIN st1.edge2weight THEN st1
                 ELSE [st1 EXCEPT !.edge_list = Append(@, reverse_edge(source, dest, weight)),
                                  !.num_edges = @ + 1,
                                  !.edge2weight = dict_put(@, revEdgeID, weight)]

\* create edge(s): st holds edge_list, num_edges, edge2weight and err
create_edges(st, source, dest, weight, dir) ==
    LET edgeID == <<source, dest>>
    IN  IF edgeID \in DOMAIN st.edge2weight
        THEN IF float_ne(st.edge2weight[edgeID], weight)
             THEN [st EXCEPT !.err = TRUE]
             ELSE st
        ELSE LET st1 == [st EXCEPT !.edge_list = Append(@, <<source, dest, weight>>),
                                   !.num_edges = @ + 1,
                                   !.edge2weight = dict_put(@, edgeID, weight)]
                 revEdgeID == <<dest, source>>
             IN  IF dir THEN st1
                 ELSE IF revEdgeID \in DOMAIN st1.edge2weight
                      THEN IF float_ne(st1.edge2weight[revEdgeID], weight)
                           THEN [st1 EXCEPT !.err = TRUE]
                           ELSE st1
                      ELSE [st1 EXCEPT !.edge_list = Append(@, reverse_edge(source, dest, weight)),
                                       !.num_edges = @ + 1,
                                       !.edge2weight = dict_put(@, revEdgeID, weight)]

\* variant: a weight that is not a float is replaced by 1.0 instead of raising
parse_line_default_weight(st, line, w, dir) ==
    IF line.nf # 3 THEN [st EXCEPT !.err = TRUE]
    ELSE LET ids == assign_ids(st.ENSG2idx, st.num_nodes, line.node1, line.node2)
             st1 == [st EXCEPT !.ENSG2idx = ids.ENSG2idx, !.num_nodes = ids.num_nodes]
             weight == IF w /\ is_float(line.weight_or_type)
                       THEN float(line.weight_or_type) ELSE <<1, 1>>
         IN  create_edges(st1, ids.ENSG2idx[line.node1], ids.ENSG2idx[line.node2],
                          weight, dir)

\* the body of `for line in f`, on the state st of the local variables
parse_line(st, line, w, dir) ==
    IF line.nf # 3 THEN [st EXCEPT !.err = TRUE]
    ELSE LET ids == assign_ids(st.ENSG2idx, st.num_nodes, line.node1, line.node2)
             st1 == [st EXCEPT !.ENSG2idx = ids.ENSG2idx, !.num_nodes = ids.num_nodes]
         IN  IF w /\ ~is_float(line.weight_or_type) THEN [st1 EXCEPT !.err = TRUE]
             ELSE LET weight == IF w THEN float(line.weight_or_type) ELSE <<1, 1>>
                  IN  create_edges(st1, ids.ENSG2idx[line.node1], ids.ENSG2idx[line.node2],
                                   weight, dir)

\* parse_interactome is entered: the flags are given, the structures are empty
InitParse ==
    /\ weighted \in BOOLEAN
    /\ directed \in BOOLEAN
    /\ lines_read = <<>>
    /\ ENSG2idx = <<>>
    /\ num_nodes = 0
    /\ num_edges = 0
    /\ edge_list = <<>>
    /\ edge2weight = <<>>
    /\ ppc = "reading"
    /\ interactome = [n |-> 0, edges |-> {}]
    /\ d_max = 0
    /\ alpha = <<1, 2>>
    /\ causal_genes = <<>>
    /\ adjacency_matrices = <<>>
    /\ scores = <<>>
    /\ loo_keys = <<>>
    /\ loo_i = 0
    /\ left_out = -1
    /\ ranks_left_out = <<>>
    /\ pc = "idle"
    /\ ENSG2gene = <<>>
    /\ gene2ENSG = <<>>
    /\ causal_lines_read = <<>>
    /\ causal_genes_list = <<>>
    /\ num_found_genes = 0
    /\ scoresList = <<>>
    /\ stdout = <<>>
    /\ cpc = "idle"
    /\ mpc = "idle"
    /\ AuxIdle

\* one iteration of `for line in f`
ParseLine ==
    /\ ppc = "reading"
    /\ Len(lines_read) < MaxLines
    /\ \E line \in Lines :
        LET st == [ENSG2idx |-> ENSG2idx, num_nodes |-> num_nodes, num_edges |-> num_edges,
                   edge_list |-> edge_list, edge2weight |-> edge2weight, err |-> FALSE]
            r == parse_line(st, line, weighted, directed)
        IN  /\ lines_read' = Append(lines_read, line)
            /\ ENSG2idx' = r.ENSG2idx
            /\ num_nodes' = r.num_nodes
            /\ num_edges' = r.num_edges
            /\ edge_list' = r.edge_list
            /\ edge2weight' = r.edge2weight
            /\ ppc' = IF r.err THEN "raised" ELSE "reading"
    /\ UNCHANGED <<weighted, directed>>
    /\ UNCHANGED scoreVars
    /\ UNCHANGED mainVars
    /\ UNCHANGED auxVars

\* the file is exhausted: f.close(), return(interactome, ENSG2idx)
ParseReturn ==
    /\ ppc = "reading"
    /\ ppc' = "returned"
    /\ UNCHANGED <<weighted, directed, lines_read, ENSG2idx, num_nodes, num_edges,
                   edge_list, edge2weight>>
    /\ UNCHANGED scoreVars
    /\ UNCHANGED mainVars
    /\ UNCHANGED auxVars

NextParse ==
    \/ ParseLine
    \/ ParseReturn

SpecParse == InitParse /\ [][NextParse]_vars

\* ------------------------------------------------------------- parse_causal_genes
\* a line of a text file is the sequence of its characters, the final newline left out
G1 == <<"G", "1">>
G2 == <<"G", "2">>

\* the gene names found in the Uniprot file
GeneNames == {G1, G2}

\* the lines found in the causal genes file: gene names of the Uniprot file, a gene
\* name that is not in it, a name with a dot, an empty line
CausalLines == GeneNames \cup {<<"G", "_", "3">>, <<"G", ".", "4">>, <<>>}

\* the class [a-zA-Z0-9\-_], on the characters that CausalLines uses
re_class == {"G", "1", "2", "3", "4", "-", "_"}

\* re.compile(r'^[a-zA-Z0-9\-_]+$').match(line)
re_causal_match(line) ==
    /\ Len(line) >= 1
    /\ \A k \in 1 .. Len(line) : line[k] \in re_class

\* [0.0] * len(ENSG2idx)
zeros_list(n) == [k \in 1 .. n |-> RZero]

\* variant: a gene that is not in the interactome raises
parse_causal_line_absent_raises(st, line, g2E, E2idx) ==
    IF re_causal_match(line)
    THEN IF line \in DOMAIN g2E
         THEN IF g2E[line] \in DOMAIN E2idx
              THEN [st EXCEPT !.causal_genes[E2idx[g2E[line]] + 1] = ROne,
                              !.num_found_genes = @ + 1]
              ELSE [st EXCEPT !.err = TRUE]
         ELSE st
    ELSE [st EXCEPT !.err = TRUE]

\* the body of `for line in f_causal`, on the state st of the local variables; the
\* index i of the python list is position i + 1 of the sequence
parse_causal_line(st, line, g2E, E2idx) ==
    IF re_causal_match(line)
    THEN IF line \in DOMAIN g2E
         THEN IF g2E[line] \in DOMAIN E2idx
              THEN [st EXCEPT !.causal_genes[E2idx[g2E[line]] + 1] = ROne,
                              !.num_found_genes = @ + 1]
              ELSE st
         ELSE st
    ELSE [st EXCEPT !.err = TRUE]

\* the dict ENSG2idx that parse_interactome builds when it meets the nodes in order q
dense_index(q) == [e \in Range(q) |-> (CHOOSE k \in 1 .. Len(q) : q[k] = e) - 1]

\* parse_causal_genes is entered with the dicts of the two other parsers, the file is
\* open
InitCausal ==
    /\ \E q \in InjSeqs(NodeIds) : ENSG2idx = dense_index(q)
    /\ \E S \in SUBSET GeneNames : gene2ENSG \in [S -> NodeIds]
    /\ causal_genes_list = zeros_list(Cardinality(DOMAIN ENSG2idx))
    /\ num_found_genes = 0
    /\ causal_lines_read = <<>>
    /\ cpc = "reading"
    /\ ENSG2gene = <<>>
    /\ scoresList = <<>>
    /\ stdout = <<>>
    /\ mpc = "idle"
    /\ weighted = FALSE
    /\ directed = FALSE
    /\ lines_read = <<>>
    /\ num_nodes = Cardinality(DOMAIN ENSG2idx)
    /\ num_edges = 0
    /\ edge_list = <<>>
    /\ edge2weight = <<>>
    /\ ppc = "idle"
    /\ interactome = [n |-> 0, edges |-> {}]
    /\ d_max = 0
    /\ alpha = <<1, 2>>
    /\ causal_genes = <<>>
    /\ adjacency_matrices = <<>>
    /\ scores = <<>>
    /\ loo_keys = <<>>
    /\ loo_i = 0
    /\ left_out = -1
    /\ ranks_left_out = <<>>
    /\ pc = "idle"
    /\ AuxIdle

\* one iteration of `for line in f_causal`
CausalLine ==
    /\ cpc = "reading"
    /\ Len(causal_lines_read) < MaxCausalLines
    /\ \E line \in CausalLines :
        LET st == [causal_genes |-> causal_genes_list, num_found_genes |-> num_found_genes,
                   err |-> FALSE]
            r == parse_causal_line(st, line, gene2ENSG, ENSG2idx)
        IN  /\ causal_lines_read' = Append(causal_lines_read, line)
            /\ causal_genes_list' = r.causal_genes
            /\ num_found_genes' = r.num_found_genes
            /\ cpc' = IF r.err THEN "raised" ELSE "reading"
    /\ UNCHANGED <<ENSG2gene, gene2ENSG, scoresList, stdout, mpc>>
    /\ UNCHANGED scoreVars
    /\ UNCHANGED parseVars
    /\ UNCHANGED auxVars

\* the file is exhausted: f_causal.close(), return(causal_genes)
CausalReturn ==
    /\ cpc = "reading"
    /\ cpc' = "returned"
    /\ UNCHANGED <<ENSG2gene, gene2ENSG, causal_lines_read, causal_genes_list,
                   num_found_genes, scoresList, stdout, mpc>>
    /\ UNCHANGED scoreVars
    /\ UNCHANGED parseVars
    /\ UNCHANGED auxVars

NextCausal ==
    \/ CausalLine
    \/ CausalReturn

SpecCausal == InitCausal /\ [][NextCausal]_vars

\* ------------------------------------------------------------- whole files
\* a file: whether open() succeeds, and its lines
Files(LineSet, max) ==
    {[opens |-> FALSE, lines |-> <<>>]} \cup
    [opens : {TRUE}, lines : UNION {[1 .. m -> LineSet] : m \in 0 .. max}]

\* for line in f: ..., up to the first line that raises
RECURSIVE parse_lines(_, _, _, _, _)
parse_lines(st, lines, k, w, dir) ==
    IF k > Len(lines) \/ st.err THEN st
    ELSE parse_lines(parse_line(st, lines[k], w, dir), lines, k + 1, w, dir)

\* data_parser.parse_interactome(interactome_file, weighted, directed)
parse_interactome(file, w, dir) ==
    LET st == [ENSG2idx |-> <<>>, num_nodes |-> 0, num_edges |-> 0,
               edge_list |-> <<>>, edge2weight |-> <<>>, err |-> FALSE]
    IN  IF ~file.opens THEN [st EXCEPT !.err = TRUE]
        ELSE parse_lines(st, file.lines, 1, w, dir)

\* for line in f_causal: ..., up to the first line that raises
RECURSIVE parse_causal_lines(_, _, _, _, _)
parse_causal_lines(st, lines, k, g2E, E2idx) ==
    IF k > Len(lines) \/ st.err THEN st
    ELSE parse_causal_lines(parse_causal_line(st, lines[k], g2E, E2idx), lines, k + 1,
                            g2E, E2idx)

\* data_parser.parse_causal_genes(causal_genes_file, gene2ENSG, ENSG2idx)
parse_causal_genes(file, g2E, E2idx) ==
    LET st == [causal_genes |-> zeros_list(Cardinality(DOMAIN E2idx)),
               num_found_genes |-> 0, err |-> FALSE]
    IN  IF ~file.opens THEN [st EXCEPT !.err = TRUE]
        ELSE parse_causal_lines(st, file.lines, 1, g2E, E2idx)

\* ------------------------------------------------------------- parse_uniprot
\* a record of the Uniprot file after split('\t'): nf is the number of fields,
\* AC_primary the first field, ENSGs and geneNames are the two fields after
\* split(','), the field "" being <<>>
UniprotRecords ==
    [nf : {7},
     AC_primary : {"P12345"},
     ENSGs : {<<>>, <<"ENSG1">>, <<"ENSG2", "ENSG1">>},
     geneNames : {<<>>, <<G1>>, <<G2, G1>>}]
        \cup {[nf |-> 6, AC_primary |-> "P12345", ENSGs |-> <<>>, geneNames |-> <<>>]}

\* the line of headers written by Interactome/uniprot_parser.py
UniprotHeader ==
    [nf |-> 7, AC_primary |-> "Primary_AC", ENSGs |-> <<"ENSGs">>,
     geneNames |-> <<<<"G", "N">>>>]

\* the lines found in the Uniprot file
UniprotLines == UniprotRecords \cup {UniprotHeader}

\* line.startswith("Primary_AC\t")
is_header(line) == line.AC_primary = "Primary_AC"

\* the body of `for line in f`, on the state st of the two dicts
parse_uniprot_line(st, line) ==
    IF line.nf # 7 THEN [st EXCEPT !.err = TRUE]
    ELSE IF line.ENSGs = <<>> THEN st
    ELSE IF line.geneNames = <<>> THEN st
    ELSE LET ENSG == line.ENSGs[1]
             geneName == line.geneNames[1]
         IN  [st EXCEPT !.ENSG2gene = dict_put(@, ENSG, geneName),
                        !.gene2ENSG = dict_put(@, geneName, ENSG)]

RECURSIVE parse_uniprot_lines(_, _, _)
parse_uniprot_lines(st, lines, k) ==
    IF k > Len(lines) \/ st.err THEN st
    ELSE parse_uniprot_lines(parse_uniprot_line(st, lines[k]), lines, k + 1)

\* data_parser.parse_uniprot(uniprot_file): the first line must be the header; on an
\* empty file readline() returns "", which is not the header either
parse_uniprot(file) ==
    LET st == [ENSG2gene |-> <<>>, gene2ENSG |-> <<>>, err |-> FALSE]
    IN  IF ~file.opens THEN [st EXCEPT !.err = TRUE]
        ELSE IF file.lines = <<>> \/ ~is_header(file.lines[1]) THEN [st EXCEPT !.err = TRUE]
        ELSE parse_uniprot_lines(st, file.lines, 2)

\* ------------------------------------------------------------- scores_to_TSV
\* ENSG2idx.keys(): the keys in insertion order, which is the order of the indexes
dict_keys(E2idx) ==
    [k \in 1 .. Cardinality(DOMAIN E2idx) |-> CHOOSE e \in DOMAIN E2idx : E2idx[e] = k - 1]

\* for ENSG in ENSG2idx.keys(): gene = ENSG2gene[ENSG] raises KeyError for an ENSG
\* without gene name, else one row is printed; st holds stdout and err
RECURSIVE tsv_rows(_, _, _, _, _, _)
tsv_rows(st, ks, k, scrs, E2gene, E2idx) ==
    IF k > Len(ks) \/ st.err THEN st
    ELSE LET ENSG == ks[k]
         IN  IF ENSG \notin DOMAIN E2gene THEN [st EXCEPT !.err = TRUE]
             ELSE tsv_rows([st EXCEPT !.stdout =
                                Append(@, <<ENSG, E2gene[ENSG], scrs[E2idx[ENSG] + 1]>>)],
                           ks, k + 1, scrs, E2gene, E2idx)

\* data_parser.scores_to_TSV(scores, ENSG2gene, ENSG2idx): the header, then the rows
scores_to_TSV(scrs, E2gene, E2idx, out) ==
    tsv_rows([stdout |-> Append(out, <<"ENSG", "GENE", "SCORE">>), err |-> FALSE],
             dict_keys(E2idx), 1, scrs, E2gene, E2idx)

\* a call of scores_to_TSV with the positional arguments args: python raises TypeError
\* before the body runs unless there are three of them
call_scores_to_TSV(args, out) ==
    IF Len(args) # 3 THEN [stdout |-> out, err |-> TRUE]
    ELSE scores_to_TSV(args[1], args[2], args[3], out)

\* ------------------------------------------------------------- GBA_centrality.py
\* GBA_centrality.calculate_scores: ctypes.CDLL(so_file) raises when the library cannot
\* be loaded; otherwise scoresList has one entry per gene, the value that the library
\* left in scores.scores[i], written <<"score", i>>
calculate_scores_native(E2idx, so_loads) ==
    IF ~so_loads THEN [scoresList |-> <<>>, err |-> TRUE]
    ELSE [scoresList |-> [k \in 1 .. Cardinality(DOMAIN E2idx) |-> <<"score", k - 1>>],
          err |-> FALSE]

\* variant: main passes ENSG2idx as well
scores_to_TSV_args_with_ENSG2idx(scrs, E2gene, E2idx) == <<scrs, E2gene, E2idx>>

\* the arguments of main's call data_parser.scores_to_TSV(scores, ENSG2gene)
scores_to_TSV_args(scrs, E2gene, E2idx) == <<scrs, E2gene>>

\* the lines of the SIF file in a run of main
MainLines == {l \in Lines : l.weight_or_type \in {"0.5", "pp"}}

\* main is entered with the command-line flags
InitMain ==
    /\ weighted \in BOOLEAN
    /\ directed \in BOOLEAN
    /\ mpc = "parse_interactome"
    /\ lines_read = <<>>
    /\ ENSG2idx = <<>>
    /\ num_nodes = 0
    /\ num_edges = 0
    /\ edge_list = <<>>
    /\ edge2weight = <<>>
    /\ ppc = "idle"
    /\ ENSG2gene = <<>>
    /\ gene2ENSG = <<>>
    /\ causal_lines_read = <<>>
    /\ causal_genes_list = <<>>
    /\ num_found_genes = 0
    /\ scoresList = <<>>
    /\ stdout = <<>>
    /\ cpc = "idle"
    /\ interactome = [n |-> 0, edges |-> {}]
    /\ d_max = 0
    /\ alpha = <<1, 2>>
    /\ causal_genes = <<>>
    /\ adjacency_matrices = <<>>
    /\ scores = <<>>
    /\ loo_keys = <<>>
    /\ loo_i = 0
    /\ left_out = -1
    /\ ranks_left_out = <<>>
    /\ pc = "idle"
    /\ AuxIdle

\* (interactome, ENSG2idx) = data_parser.parse_interactome(...)
MainParseInteractome ==
    /\ mpc = "parse_interactome"
    /\ \E file \in Files(MainLines, MaxMainLines) :
        LET r == parse_interactome(file, weighted, directed)
        IN  IF r.err
            THEN /\ mpc' = "error"
                 /\ UNCHANGED <<ENSG2idx, num_nodes, num_edges, edge_list, edge2weight>>
            ELSE /\ mpc' = "parse_uniprot"
                 /\ ENSG2idx' = r.ENSG2idx
                 /\ num_nodes' = r.num_nodes
                 /\ num_edges' = r.num_edges
                 /\ edge_list' = r.edge_list
                 /\ edge2weight' = r.edge2weight
    /\ UNCHANGED <<weighted, directed, lines_read, ppc>>
    /\ UNCHANGED <<ENSG2gene, gene2ENSG, causal_lines_read, causal_genes_list,
                   num_found_genes, scoresList, stdout, cpc>>
    /\ UNCHANGED scoreVars
    /\ UNCHANGED auxVars

\* (ENSG2gene, gene2ENSG) = data_parser.parse_uniprot(uniprot_file)
MainParseUniprot ==
    /\ mpc = "parse_uniprot"
    /\ \E file \in Files(UniprotLines, MaxUniprotLines) :
        LET r == parse_uniprot(file)
        IN  IF r.err
            THEN /\ mpc' = "error"
                 /\ UNCHANGED <<ENSG2gene, gene2ENSG>>
            ELSE /\ mpc' = "parse_causal_genes"
                 /\ ENSG2gene' = r.ENSG2gene
                 /\ gene2ENSG' = r.gene2ENSG
    /\ UNCHANGED <<causal_lines_read, causal_genes_list, num_found_genes, scoresList,
                   stdout, cpc>>
    /\ UNCHANGED scoreVars
    /\ UNCHANGED parseVars
    /\ UNCHANGED auxVars

\* causal_genes = data_parser.parse_causal_genes(causal_genes_file, gene2ENSG, ENSG2idx)
MainParseCausalGenes ==
    /\ mpc = "parse_causal_genes"
    /\ \E file \in Files(CausalLines, MaxCausalLines) :
        LET r == parse_causal_genes(file, gene2ENSG, ENSG2idx)
        IN  IF r.err
            THEN /\ mpc' = "error"
                 /\ UNCHANGED <<causal_genes_list, num_found_genes>>
            ELSE /\ mpc' = "calculate_scores"
                 /\ causal_genes_list' = r.causal_genes
                 /\ num_found_genes' = r.num_found_genes
    /\ UNCHANGED <<ENSG2gene, gene2ENSG, causal_lines_read, scoresList, stdout, cpc>>
    /\ UNCHANGED scoreVars
    /\ UNCHANGED parseVars
    /\ UNCHANGED auxVars

\* scores = calculate_scores(interactome, ENSG2idx, causal_genes, alpha)
MainCalculateScores ==
    /\ mpc = "calculate_scores"
    /\ \E so_loads \in BOOLEAN :
        LET r == calculate_scores_native(ENSG2idx, so_loads)
        IN  /\ mpc' = IF r.err THEN "error" ELSE "scores_to_TSV"
            /\ scoresList' = r.scoresList
    /\ UNCHANGED <<ENSG2gene, gene2ENSG, causal_lines_read, causal_genes_list,
                   num_found_genes, stdout, cpc>>
    /\ UNCHANGED scoreVars
    /\ UNCHANGED parseVars
    /\ UNCHANGED auxVars

\* data_parser.scores_to_TSV(scores, ENSG2gene); logger.info("Done!")
MainScoresToTSV ==
    /\ mpc = "scores_to_TSV"
    /\ LET r == call_scores_to_TSV(scores_to_TSV_args(scoresList, ENSG2gene, ENSG2idx),
                                   stdout)
       IN  /\ mpc' = IF r.err THEN "error" ELSE "done"
           /\ stdout' = r.stdout
    /\ UNCHANGED <<ENSG2gene, gene2ENSG, causal_lines_read, causal_genes_list,
                   num_found_genes, scoresList, cpc>>
    /\ UNCHANGED scoreVars
    /\ UNCHANGED parseVars
    /\ UNCHANGED auxVars

NextMain ==
    \/ MainParseInteractome
    \/ MainParseUniprot
    \/ MainParseCausalGenes
    \/ MainCalculateScores
    \/ MainScoresToTSV

SpecMain == InitMain /\ [][NextMain]_vars

\* ------------------------------------------------------------- scores_to_TSV alone
\* the order of python on the strings of NodeIds
str_rank(e) == CASE e = "ENSG1" -> 1 [] e = "ENSG2" -> 2 [] e = "ENSG3" -> 3

\* sorted(scores.items()): the keys in increasing string order
RECURSIVE sorted_items(_)
sorted_items(S) ==
    IF S = {} THEN <<>>
    ELSE LET m == CHOOSE e \in S : \A f \in S : str_rank(e) <= str_rank(f)
         IN  <<m>> \o sorted_items(S \ {m})

\* src/src/data_parser.scores_to_TSV(scores, ENSG2gene), scores being the dict
\* zip(interactome.nodes(), scores_vec): the header, then one row per item of the
\* sorted dict, GENE defaulting to ""
scores_to_TSV_sorted(scrs, E2gene, E2idx, out) ==
    LET ks == sorted_items(DOMAIN E2idx)
    IN  Append(out, <<"ENSG", "GENE", "SCORE">>) \o
        [k \in 1 .. Len(ks) |->
            <<ks[k], IF ks[k] \in DOMAIN E2gene THEN E2gene[ks[k]] ELSE <<>>,
              scrs[E2idx[ks[k]] + 1]>>]

\* the printing function is entered with a node index, the scores of the nodes and a
\* dict of gene names
InitTSV ==
    /\ \E q \in InjSeqs(NodeIds) : ENSG2idx = dense_index(q)
    /\ \E S \in SUBSET NodeIds : ENSG2gene \in [S -> GeneNames]
    /\ scoresList = [k \in 1 .. Cardinality(DOMAIN ENSG2idx) |-> <<"score", k - 1>>]
    /\ stdout = <<>>
    /\ tpc = "calling"
    /\ w_pc = <<>>
    /\ w_causal_genes = <<>>
    /\ w_scores = <<>>
    /\ ToolIdle
    /\ gene2ENSG = <<>>
    /\ causal_lines_read = <<>>
    /\ causal_genes_list = <<>>
    /\ num_found_genes = 0
    /\ cpc = "idle"
    /\ mpc = "idle"
    /\ weighted = FALSE
    /\ directed = FALSE
    /\ lines_read = <<>>
    /\ num_nodes = Cardinality(DOMAIN ENSG2idx)
    /\ num_edges = 0
    /\ edge_list = <<>>
    /\ edge2weight = <<>>
    /\ ppc = "idle"
    /\ interactome = [n |-> 0, edges |-> {}]
    /\ d_max = 0
    /\ alpha = <<1, 2>>
    /\ causal_genes = <<>>
    /\ adjacency_matrices = <<>>
    /\ scores = <<>>
    /\ loo_keys = <<>>
    /\ loo_i = 0
    /\ left_out = -1
    /\ ranks_left_out = <<>>
    /\ pc = "idle"

\* data_parser.scores_to_TSV(scores, ENSG2gene, ENSG2idx)
ScoresToTSV ==
    /\ tpc = "calling"
    /\ LET r == call_scores_to_TSV(<<scoresList, ENSG2gene, ENSG2idx>>, stdout)
       IN  /\ stdout' = r.stdout
           /\ tpc' = IF r.err THEN "raised" ELSE "returned"
    /\ UNCHANGED <<ENSG2gene, gene2ENSG, causal_lines_read, causal_genes_list,
                   num_found_genes, scoresList, cpc, mpc>>
    /\ UNCHANGED scoreVars
    /\ UNCHANGED parseVars
    /\ UNCHANGED <<w_pc, w_causal_genes, w_scores>>
    /\ UNCHANGED toolVars

\* src/src/data_parser.scores_to_TSV(scores, ENSG2gene)
ScoresToTSVSorted ==
    /\ tpc = "calling"
    /\ stdout' = scores_to_TSV_sorted(scoresList, ENSG2gene, ENSG2idx, stdout)
    /\ tpc' = "returned_sorted"
    /\ UNCHANGED <<ENSG2gene, gene2ENSG, causal_lines_read, causal_genes_list,
                   num_found_genes, scoresList, cpc, mpc>>
    /\ UNCHANGED scoreVars
    /\ UNCHANGED parseVars
    /\ UNCHANGED <<w_pc, w_causal_genes, w_scores>>
    /\ UNCHANGED toolVars

NextTSV ==
    \/ ScoresToTSV
    \/ ScoresToTSVSorted

SpecTSV == InitTSV /\ [][NextTSV]_vars

\* ------------------------------------------------------------- leave_one_out, workers
\* leave_one_out(interactome, adjacency_matrices, causal_genes, alpha) as the function
\* of its arguments: the for loop over ks = list(causal_genes.keys()) from position i
RECURSIVE leave_one_out(_, _, _, _, _, _, _)
leave_one_out(G, mats, causal, a, ks, i, ranks) ==
    IF i > Len(ks) THEN ranks
    ELSE LET c1 == dict_del(causal, ks[i])
             sc == calculate_scores(G, mats, c1, a)
             idx == list_index(sorted_reverse(keys(G), sc), ks[i])
         IN  leave_one_out(G, mats, dict_set(c1, ks[i]), a, ks, i + 1,
                           dict_put(ranks, ks[i], idx + 1))

\* variant: the workers are handed the same dict, a del is seen by all of them
worker_del_shared(store, w) == [v \in DOMAIN store |-> dict_del(store[v], w)]

\* del causal_genes[left_out] by worker w, left_out = w, on its own copy
worker_del(store, w) == [store EXCEPT ![w] = dict_del(@, w)]

\* the leave-one-out runs of main with at most MaxWorkers causal genes
InitWorkers ==
    /\ Init
    /\ d_max = 2
    /\ Len(causal_genes) <= MaxWorkers

\* the caller starts one worker per causal gene, each with its own copy of the dict;
\* interactome and adjacency_matrices are shared and only read
StartWorkers ==
    /\ pc = "built"
    /\ pc' = "workers"
    /\ loo_keys' = causal_genes
    /\ ranks_left_out' = <<>>
    /\ w_pc' = [w \in Range(causal_genes) |-> "del"]
    /\ w_causal_genes' = [w \in Range(causal_genes) |-> causal_genes]
    /\ w_scores' = [w \in Range(causal_genes) |-> <<>>]
    /\ UNCHANGED <<interactome, d_max, alpha, causal_genes, adjacency_matrices,
                   scores, loo_i, left_out, tpc>>
    /\ UNCHANGED toolVars
    /\ UNCHANGED parseVars
    /\ UNCHANGED mainVars

\* worker w: del causal_genes[left_out]
WorkerLeaveOut(w) ==
    /\ pc = "workers"
    /\ w_pc[w] = "del"
    /\ w_causal_genes' = worker_del(w_causal_genes, w)
    /\ w_pc' = [w_pc EXCEPT ![w] = "scores"]
    /\ UNCHANGED <<w_scores, tpc>>
    /\ UNCHANGED toolVars
    /\ UNCHANGED scoreVars
    /\ UNCHANGED parseVars
    /\ UNCHANGED mainVars

\* worker w: scores = GBA_centrality_PR.calculate_scores(...)
WorkerScores(w) ==
    /\ pc = "workers"
    /\ w_pc[w] = "scores"
    /\ w_scores' = [w_scores EXCEPT ![w] =
            calculate_scores(interactome, adjacency_matrices, w_causal_genes[w], alpha)]
    /\ w_pc' = [w_pc EXCEPT ![w] = "rank"]
    /\ UNCHANGED <<w_causal_genes, tpc>>
    /\ UNCHANGED toolVars
    /\ UNCHANGED scoreVars
    /\ UNCHANGED parseVars
    /\ UNCHANGED mainVars

\* worker w: save the left-out rank, put the left-out gene back
WorkerRank(w) ==
    /\ pc = "workers"
    /\ w_pc[w] = "rank"
    /\ LET idx == list_index(sorted_reverse(keys(interactome), w_scores[w]), w)
       IN  ranks_left_out' = dict_put(ranks_left_out, w, idx + 1)
    /\ w_causal_genes' = [w_causal_genes EXCEPT ![w] = dict_set(@, w)]
    /\ w_pc' = [w_pc EXCEPT ![w] = "done"]
    /\ UNCHANGED <<interactome, d_max, alpha, causal_genes, adjacency_matrices,
                   scores, loo_keys, loo_i, left_out, pc, w_scores, tpc>>
    /\ UNCHANGED toolVars
    /\ UNCHANGED parseVars
    /\ UNCHANGED mainVars

NextWorkers ==
    \/ GetAdjacencyMatrices
    \/ StartWorkers
    \/ \E w \in DOMAIN w_pc : WorkerLeaveOut(w)
    \/ \E w \in DOMAIN w_pc : WorkerScores(w)
    \/ \E w \in DOMAIN w_pc : WorkerRank(w)

SpecWorkers == InitWorkers /\ [][NextWorkers]_vars

\* ------------------------------------------------------------- native kernel against dense
\* A^d, every product taken on the unchanged previous power
RECURSIVE TruePower(_, _, _)
TruePower(A, n, d) == IF d = 0 THEN identity(n) ELSE matmul(TruePower(A, n, d - 1), A, n)

\* the list of edges that stands for the undirected network G in GBA_centrality.py:
\* every interaction in both directions, with weight 1
interactome_edges(G) ==
    {<<q[1], q[2], ROne>> :
        q \in {r \in Nodes(G) \X Nodes(G) : r[1] # r[2] /\ {r[1], r[2]} \in G.edges}}

\* N = Network(len(ENSG2idx), len(interactome), edges)
Network(n, edges) == [nbNodes |-> n, nbEdges |-> Cardinality(edges), edges |-> edges]

\* causalData: one float per gene, 1 if the gene is causal
causalData(G, causal) == [k \in 1 .. G.n |-> IF (k - 1) \in Range(causal) THEN 1 ELSE 0]

\* the hop matrices of the library: identity, then for each hop up to the horizon of the
\* library the power of the adjacency matrix of the edges, diagonal zeroed, rows normalised
kernel_matrices(N, horizon) ==
    LET n == N.nbNodes
        A == [i \in 0 .. (n - 1) |->
                 [j \in 0 .. (n - 1) |->
                     IF \E e \in N.edges : e[1] = i /\ e[2] = j THEN 1 ELSE 0]]
    IN  [k \in 1 .. (horizon + 1) |->
            IF k = 1 THEN astype_float32(identity(n), n)
            ELSE row_normalize(fill_diagonal(TruePower(A, n, k - 1), n), n)]

\* gbaLibrary.gbaCentrality(N, causal, alpha, scores): its arguments carry no d_max, the
\* number of hops is the library's own; scoresList = [scores.scores[i] for i in range(nbGenes)]
gbaCentrality(N, causal, a, horizon) ==
    LET n == N.nbNodes
        s == scores_loop(kernel_matrices(N, horizon), [i \in 0 .. (n - 1) |-> causal[i + 1]],
                         a, n, 0, [i \in 0 .. (n - 1) |-> RZero])
    IN  [k \in 1 .. n |-> s[k - 1]]

\* GBA_centrality.calculate_scores(interactome, ENSG2idx, causal_genes, alpha) on the
\* network, seeds and alpha that GBA_centrality_PR.py has just scored
NativeCalculateScores ==
    /\ pc = "scored"
    /\ tpc = "idle"
    /\ \E horizon \in 0 .. MaxD :
           scoresList' = gbaCentrality(Network(interactome.n, interactome_edges(interactome)),
                                       causalData(interactome, causal_genes), alpha, horizon)
    /\ tpc' = "native"
    /\ UNCHANGED <<ENSG2gene, gene2ENSG, causal_lines_read, causal_genes_list,
                   num_found_genes, stdout, cpc, mpc>>
    /\ UNCHANGED <<w_pc, w_causal_genes, w_scores>>
    /\ UNCHANGED toolVars
    /\ UNCHANGED scoreVars
    /\ UNCHANGED parseVars

NextParity ==
    \/ GetAdjacencyMatrices
    \/ CalculateScores
    \/ NativeCalculateScores

SpecParity == Init /\ [][NextParity]_vars

\* ------------------------------------------------------------- Interactome scripts
\* none of the functions of GBA_centrality is running
CentralityIdle ==
    /\ interactome = [n |-> 0, edges |-> {}]
    /\ d_max = 0
    /\ alpha = <<1, 2>>
    /\ causal_genes = <<>>
    /\ adjacency_matrices = <<>>
    /\ scores = <<>>
    /\ loo_keys = <<>>
    /\ loo_i = 0
    /\ left_out = -1
    /\ ranks_left_out = <<>>
    /\ pc = "idle"
    /\ weighted = FALSE
    /\ directed = FALSE
    /\ lines_read = <<>>
    /\ ENSG2idx = <<>>
    /\ num_nodes = 0
    /\ num_edges = 0
    /\ edge_list = <<>>
    /\ edge2weight = <<>>
    /\ ppc = "idle"
    /\ ENSG2gene = <<>>
    /\ gene2ENSG = <<>>
    /\ causal_lines_read = <<>>
    /\ causal_genes_list = <<>>
    /\ num_found_genes = 0
    /\ scoresList = <<>>
    /\ stdout = <<>>
    /\ cpc = "idle"
    /\ mpc = "idle"
    /\ tpc = "idle"
    /\ w_pc = <<>>
    /\ w_causal_genes = <<>>
    /\ w_scores = <<>>

\* ------------------------------------------------------------- Interactome_Uniprot2ENSG
\* Uniprot Primary Accessions
PrimACs == {"P1", "P2", "P3"}

\* the number of interactors above which a protein is a hub: 120 in the scripts, scaled
\* down to the size of the lists of interactions of the model
HubInteractors == 1

\* the longest list of interactions
MaxPPIs == 3

\* dict[k].append(v), or dict[k] = [v] for a key without a (non-empty) list
dict_append(d, k, v) ==
    IF k \in DOMAIN d THEN [d EXCEPT ![k] = Append(@, v)] ELSE dict_put(d, k, <<v>>)

\* get_PPI_interactors / Interactome_dict: the for loop, st = [A |-> proteinA2interactors,
\* B |-> proteinB2interactors]
RECURSIVE get_PPI_interactors_loop(_, _, _)
get_PPI_interactors_loop(ppis, k, st) ==
    IF k > Len(ppis) THEN st
    ELSE LET PPI == ppis[k]
         IN  IF PPI[1] = PPI[2] THEN get_PPI_interactors_loop(ppis, k + 1, st)
             ELSE get_PPI_interactors_loop(ppis, k + 1,
                      [A |-> dict_append(st.A, PPI[1], PPI[2]),
                       B |-> dict_append(st.B, PPI[2], PPI[1])])

get_PPI_interactors(ppis) == get_PPI_interactors_loop(ppis, 1, [A |-> <<>>, B |-> <<>>])

\* get_protein_hubs / getHubProteins: the keys of proteinHubs
get_protein_hubs(A, B) ==
    {protein \in DOMAIN A :
        LET intCountProteinA == Len(A[protein])
            intCountProteinB ==
                IF protein \in DOMAIN B
                THEN Len(SelectSeq(B[protein], LAMBDA interactor : interactor \notin Range(A[protein])))
                ELSE 0
        IN  intCountProteinA + intCountProteinB > HubInteractors}
    \cup {protein \in (DOMAIN B) \ (DOMAIN A) : Len(B[protein]) > HubInteractors}

\* the body of `for PPI in PPIs` of Interactome_Uniprot2ENSG: the lines printed after it
print_PPI(PPI, hubs, U2E, out) ==
    LET proteinA == PPI[1]
        proteinB == PPI[2]
    IN  IF proteinA \in hubs \/ proteinB \in hubs THEN out
        ELSE IF proteinA \in DOMAIN U2E /\ proteinB \in DOMAIN U2E
             THEN IF proteinA = proteinB THEN out
                  ELSE Append(out, <<U2E[proteinA], "pp", U2E[proteinB]>>)
             ELSE out

\* Interactome_Uniprot2ENSG is entered: parse_interactions / UniProtInteractome returns a
\* list with one entry per key proteinA_proteinB, the Uniprot file maps some of the
\* proteins to an ENSG
InitBuild ==
    /\ PPIs \in UNION {{q \in [1 .. m -> PrimACs \X PrimACs] :
                            \A a, b \in 1 .. m : a # b => q[a] # q[b]} : m \in 0 .. MaxPPIs}
    /\ \E S \in SUBSET PrimACs : Uniprot2ENSG \in [S -> {"ENSG1", "ENSG2"}]
    /\ proteinHubs = {}
    /\ ppi_i = 0
    /\ bpc = "start"
    /\ uniprot_lines_read = <<>>
    /\ primAC2taxID = <<>>
    /\ secAC2primAC = <<>>
    /\ geneID2primAC = <<>>
    /\ geneName2primAC = <<>>
    /\ proteins = <<>>
    /\ upc = "idle"
    /\ CentralityIdle

\* scripts/Build_Interactome.py: the calls before the for loop
BuildInteractors ==
    /\ bpc = "start"
    /\ \E r \in {get_PPI_interactors(PPIs)} : proteinHubs' = get_protein_hubs(r.A, r.B)
    /\ ppi_i' = 1
    /\ bpc' = "loop"
    /\ UNCHANGED <<PPIs, Uniprot2ENSG>>
    /\ UNCHANGED uniprotFileVars
    /\ UNCHANGED <<tpc, w_pc, w_causal_genes, w_scores>>
    /\ UNCHANGED scoreVars
    /\ UNCHANGED parseVars
    /\ UNCHANGED mainVars

\* Interactome/build_interactome.py: ENSG2Gene, gene2ENSG, Uniprot2ENSG =
\* data_parser.parse_uniprot(...) unpacks the two values returned into three names
BuildUnpackUniprot ==
    /\ bpc = "start"
    /\ bpc' = "raised"
    /\ UNCHANGED <<PPIs, Uniprot2ENSG, proteinHubs, ppi_i>>
    /\ UNCHANGED uniprotFileVars
    /\ UNCHANGED <<tpc, w_pc, w_causal_genes, w_scores>>
    /\ UNCHANGED scoreVars
    /\ UNCHANGED parseVars
    /\ UNCHANGED mainVars

\* one iteration of `for PPI in PPIs`
BuildPPI ==
    /\ bpc = "loop"
    /\ ppi_i <= Len(PPIs)
    /\ stdout' = print_PPI(PPIs[ppi_i], proteinHubs, Uniprot2ENSG, stdout)
    /\ ppi_i' = ppi_i + 1
    /\ UNCHANGED <<PPIs, Uniprot2ENSG, proteinHubs, bpc>>
    /\ UNCHANGED uniprotFileVars
    /\ UNCHANGED <<tpc, w_pc, w_causal_genes, w_scores>>
    /\ UNCHANGED scoreVars
    /\ UNCHANGED parseVars
    /\ UNCHANGED <<ENSG2gene, gene2ENSG, causal_lines_read, causal_genes_list,
                   num_found_genes, scoresList, cpc, mpc>>

\* the list is exhausted: "All done, completed successfully!"
BuildReturn ==
    /\ bpc = "loop"
    /\ ppi_i > Len(PPIs)
    /\ bpc' = "done"
    /\ UNCHANGED <<PPIs, Uniprot2ENSG, proteinHubs, ppi_i>>
    /\ UNCHANGED uniprotFileVars
    /\ UNCHANGED <<tpc, w_pc, w_causal_genes, w_scores>>
    /\ UNCHANGED scoreVars
    /\ UNCHANGED parseVars
    /\ UNCHANGED mainVars

NextBuild ==
    \/ BuildInteractors
    \/ BuildUnpackUniprot
    \/ BuildPPI
    \/ BuildReturn

SpecBuild == InitBuild /\ [][NextBuild]_vars

\* ------------------------------------------------------------- parse_uniprot_file
\* Gene Names of the Uniprot table
UniprotGeneNames == {"GN1", "GN2"}

\* the header lines: the five column titles, or a header without 'GeneNames'
UniprotFileHeaders ==
    {<<"Primary_AC", "TaxID", "Secondary_ACs", "GeneIDs", "GeneNames">>,
     <<"Primary_AC", "TaxID", "Secondary_ACs", "GeneIDs">>}

\* the data lines; a comma separated field is the list that split(",") gives, an empty
\* field the list [""]
UniprotFileLines ==
    [primAC : {"P1", "P2"}, taxID : {"9606"}, secACs : {<<"">>, <<"S1">>},
     geneIDs : {<<"">>, <<"7">>},
     geneNames : {<<"">>, <<"GN1">>, <<"GN2">>, <<"GN1", "GN2">>}]

\* dict.get(key, default)
dict_get(d, key, default) == IF key \in DOMAIN d THEN d[key] ELSE default

\* a key associated with a second Primary AC is assigned "-1": the body of the for
\* loops over secACs and over geneIDs
assign_or_ambiguous(d, key, primAC) ==
    IF key \in DOMAIN d
    THEN IF d[key] # "-1" THEN dict_put(d, key, "-1") ELSE d
    ELSE dict_put(d, key, primAC)

RECURSIVE assign_all(_, _, _, _)
assign_all(d, ks, i, primAC) ==
    IF i > Len(ks) THEN d
    ELSE assign_all(assign_or_ambiguous(d, ks[i], primAC), ks, i + 1, primAC)

\* the body of the for loop over geneNames: st holds the dicts
assign_gene_name(st, geneName, primAC) ==
    IF geneName \in DOMAIN st.geneName2primAC
    THEN IF st.geneName2primAC[geneName] # "-1"
         THEN [st EXCEPT !.geneID2primAC = dict_put(@, geneName, "-1")]
         ELSE st
    ELSE [st EXCEPT !.geneName2primAC = dict_put(@, geneName, primAC)]

RECURSIVE assign_gene_names(_, _, _, _)
assign_gene_names(st, ks, i, primAC) ==
    IF i > Len(ks) THEN st
    ELSE assign_gene_names(assign_gene_name(st, ks[i], primAC), ks, i + 1, primAC)

\* the body of `for line in f` of parse_uniprot_file
parse_uniprot_file_line(st, line) ==
    LET st1 == [st EXCEPT !.primAC2taxID = dict_put(@, line.primAC, line.taxID),
                          !.secAC2primAC = assign_all(@, line.secACs, 1, line.primAC),
                          !.geneID2primAC = assign_all(@, line.geneIDs, 1, line.primAC)]
    IN  assign_gene_names(st1, line.geneNames, 1, line.primAC)

\* parse_interaction_file: the Primary AC that a gene name of the alternative IDs or of
\* the aliases gives to proteins[protein_idx], "" when it gives none
gene_name_to_protein(gn2primAC, geneName) ==
    IF dict_get(gn2primAC, geneName, "-1") # "-1" THEN gn2primAC[geneName] ELSE ""

\* parse_uniprot_file is entered
InitUniprotFile ==
    /\ uniprot_lines_read = <<>>
    /\ primAC2taxID = <<>>
    /\ secAC2primAC = <<>>
    /\ geneID2primAC = <<>>
    /\ geneName2primAC = <<>>
    /\ proteins = <<>>
    /\ upc = "header"
    /\ PPIs = <<>>
    /\ Uniprot2ENSG = <<>>
    /\ proteinHubs = {}
    /\ ppi_i = 0
    /\ bpc = "idle"
    /\ CentralityIdle

\* header = f.readline(): sys.exit() when a column title is missing
UniprotFileHeader ==
    /\ upc = "header"
    /\ \E header_fields \in UniprotFileHeaders :
           upc' = IF \A title \in {"Primary_AC", "TaxID", "Secondary_ACs", "GeneIDs", "GeneNames"} :
                        title \in Range(header_fields)
                  THEN "reading" ELSE "exited"
    /\ UNCHANGED <<uniprot_lines_read, primAC2taxID, secAC2primAC, geneID2primAC,
                   geneName2primAC, proteins>>
    /\ UNCHANGED buildVars
    /\ UNCHANGED <<tpc, w_pc, w_causal_genes, w_scores>>
    /\ UNCHANGED scoreVars
    /\ UNCHANGED parseVars
    /\ UNCHANGED mainVars

\* one iteration of `for line in f`
UniprotFileLine ==
    /\ upc = "reading"
    /\ Len(uniprot_lines_read) < MaxUniprotLines
    /\ \E line \in UniprotFileLines :
        LET st == [primAC2taxID |-> primAC2taxID, secAC2primAC |-> secAC2primAC,
                   geneID2primAC |-> geneID2primAC, geneName2primAC |-> geneName2primAC]
            r == parse_uniprot_file_line(st, line)
        IN  /\ uniprot_lines_read' = Append(uniprot_lines_read, line)
            /\ primAC2taxID' = r.primAC2taxID
            /\ secAC2primAC' = r.secAC2primAC
            /\ geneID2primAC' = r.geneID2primAC
            /\ geneName2primAC' = r.geneName2primAC
    /\ UNCHANGED <<proteins, upc>>
    /\ UNCHANGED buildVars
    /\ UNCHANGED <<tpc, w_pc, w_causal_genes, w_scores>>
    /\ UNCHANGED scoreVars
    /\ UNCHANGED parseVars
    /\ UNCHANGED mainVars

\* f.close(); return primAC2taxID, secAC2primAC, geneID2primAC, geneName2primAC
UniprotFileReturn ==
    /\ upc = "reading"
    /\ upc' = "returned"
    /\ UNCHANGED <<uniprot_lines_read, primAC2taxID, secAC2primAC, geneID2primAC,
                   geneName2primAC, proteins>>
    /\ UNCHANGED buildVars
    /\ UNCHANGED <<tpc, w_pc, w_causal_genes, w_scores>>
    /\ UNCHANGED scoreVars
    /\ UNCHANGED parseVars
    /\ UNCHANGED mainVars

\* parse_interaction_file on a line whose two proteins are named by a gene name only:
\* proteins[protein_idx] for protein_idx in [0, 1], kept with the names looked up
InteractionLineGeneNames ==
    /\ upc = "returned"
    /\ \E a, b \in UniprotGeneNames :
           proteins' = [names |-> <<a, b>>,
                        primACs |-> <<gene_name_to_protein(geneName2primAC, a),
                                      gene_name_to_protein(geneName2primAC, b)>>]
    /\ upc' = "resolved"
    /\ UNCHANGED <<uniprot_lines_read, primAC2taxID, secAC2primAC, geneID2primAC,
                   geneName2primAC>>
    /\ UNCHANGED buildVars
    /\ UNCHANGED <<tpc, w_pc, w_causal_genes, w_scores>>
    /\ UNCHANGED scoreVars
    /\ UNCHANGED parseVars
    /\ UNCHANGED mainVars

NextUniprotFile ==
    \/ UniprotFileHeader
    \/ UniprotFileLine
    \/ UniprotFileReturn
    \/ InteractionLineGeneNames

SpecUniprotFile == InitUniprotFile /\ [][NextUniprotFile]_vars

\* ------------------------------------------------------------- properties
\* the network A-B, B-C with seeds {A}, alpha = 0.5 and d_max = 2 (A, B, C = 0, 1, 2)
ExampleInput ==
    /\ interactome = [n |-> 3, edges |-> {{0, 1}, {1, 2}}]
    /\ causal_genes = <<0>>
    /\ alpha = <<1, 2>>
    /\ d_max = 2

\* C1 as stated: on the example network the scores are score(A) = 1, score(B) = 0.5
\* and score(C) = 0.25.
C1_ExampleScoresAsStated ==
    (ExampleInput /\ pc = "scored") =>
        (scores[0] = <<1, 1>> /\ scores[1] = <<1, 2>> /\ scores[2] = <<1, 4>>)

\* C1 amended: on the example network the scores are score(A) = 1, score(B) = 0.25
\* (B has two neighbours, so its row of M_1 gives A the weight 1/2) and
\* score(C) = 0.25.
C1_ExampleScores ==
    (ExampleInput /\ pc = "scored") =>
        (scores[0] = <<1, 1>> /\ scores[1] = <<1, 4>> /\ scores[2] = <<1, 4>>)

C1_Witness == ExampleInput /\ pc = "scored"

\* C2: for every d in 1..d_max the matrix at index d is the d-th power of the raw
\* adjacency matrix, with its diagonal zeroed and its non-zero rows divided by
\* their sums.
C2_MatricesAreTruePowers ==
    pc # "parsed" =>
        \A d \in 1 .. d_max :
            LET n == interactome.n
                P == TruePower(to_scipy_sparse_array(interactome), n, d)
                Z == [i \in 0 .. (n - 1) |-> [j \in 0 .. (n - 1) |-> IF i = j THEN 0 ELSE P[i][j]]]
                S == [i \in 0 .. (n - 1) |-> SumInt(Z[i], n - 1)]
            IN  \A i, j \in 0 .. (n - 1) :
                    adjacency_matrices[d + 1][i][j] =
                        IF S[i] = 0 THEN RZero ELSE Rat(Z[i][j], S[i])

\* the seed vector: 1 iff node j is a key of causal_genes
SeedOf(j) == IF \E k \in 1 .. Len(causal_genes) : causal_genes[k] = j THEN 1 ELSE 0

\* sum over the seeds j of M[i][j]
RECURSIVE SumOverSeeds(_, _, _)
SumOverSeeds(M, i, j) ==
    IF j < 0 THEN RZero
    ELSE IF SeedOf(j) = 1 THEN RAdd(M[i][j], SumOverSeeds(M, i, j - 1))
    ELSE SumOverSeeds(M, i, j - 1)

\* sum for d' = 0..d of alpha^d' * sum_j M_d'[i][j] * seed[j]
RECURSIVE ScoreSum(_, _)
ScoreSum(i, d) ==
    IF d < 0 THEN RZero
    ELSE RAdd(ScoreSum(i, d - 1),
              RMul(RPow(alpha, d), SumOverSeeds(adjacency_matrices[d + 1], i, interactome.n - 1)))

\* C3: calculate_scores returns for each node i the sum over d = 0..d_max of
\* alpha^d * sum_j M_d[i][j] * seed[j], seed[j] = 1 iff j is a key of causal_genes.
C3_ScoreFormula ==
    pc \in {"scored", "loo_rank"} =>
        /\ DOMAIN scores = Nodes(interactome)
        /\ \A i \in Nodes(interactome) : scores[i] = ScoreSum(i, d_max)

C3_Witness ==
    /\ pc = "scored"
    /\ d_max >= 2
    /\ Len(causal_genes) >= 2
    /\ \E i \in Nodes(interactome) :
           /\ SeedOf(i) = 0
           /\ RLess(RZero, SumOverSeeds(adjacency_matrices[2], i, interactome.n - 1))
           /\ RLess(RZero, SumOverSeeds(adjacency_matrices[3], i, interactome.n - 1))

\* C4: every matrix M_d, d >= 1, has a zero diagonal and each of its rows is
\* all-zero or sums to 1.
C4_RowsNormalized ==
    pc # "parsed" =>
        \A d \in 1 .. d_max : \A i \in Nodes(interactome) :
            LET row == adjacency_matrices[d + 1][i]
            IN  /\ row[i] = RZero
                /\ \/ \A j \in Nodes(interactome) : row[j] = RZero
                   \/ SumRat(row, interactome.n - 1) = ROne

C4_Witness ==
    /\ pc = "built"
    /\ d_max >= 2
    /\ \E i, k, m \in Nodes(interactome) :
           /\ \A j \in Nodes(interactome) : adjacency_matrices[3][i][j] = RZero
           /\ Cardinality({j \in Nodes(interactome) : adjacency_matrices[2][k][j] # RZero}) >= 2
           /\ SumRat(adjacency_matrices[3][m], interactome.n - 1) = ROne

\* C5: with d_max = 0 the list of matrices is [I] and the score of a node is 1 if
\* it is a seed and 0 otherwise.
C5_DmaxZero ==
    d_max = 0 =>
        /\ pc # "parsed" =>
               adjacency_matrices =
                   <<[i \in Nodes(interactome) |->
                        [j \in Nodes(interactome) |-> IF i = j THEN ROne ELSE RZero]]>>
        /\ pc \in {"scored", "loo_rank"} =>
               \A i \in Nodes(interactome) :
                   scores[i] = IF i \in Range(causal_genes) THEN ROne ELSE RZero

C5_Witness ==
    /\ pc = "scored"
    /\ d_max = 0
    /\ interactome.edges # {}
    /\ \E i, j \in Nodes(interactome) : scores[i] = ROne /\ scores[j] = RZero

\* the nodes within d hops of a node of S
RECURSIVE WithinHops(_, _)
WithinHops(S, d) ==
    IF d = 0 THEN S
    ELSE LET W == WithinHops(S, d - 1)
         IN  W \cup {v \in Nodes(interactome) : \E u \in W : {u, v} \in interactome.edges}

\* C6: leave_one_out never raises, and every rank it records is in 1..n; when it
\* returns, every seed has a rank; a held-out seed with no other seed within
\* d_max hops scores 0.
C6_RanksInRange ==
    /\ pc # "error"
    /\ \A s \in DOMAIN ranks_left_out : ranks_left_out[s] \in 1 .. interactome.n
    /\ pc = "loo_done" => DOMAIN ranks_left_out = Range(loo_keys)
    /\ (pc = "loo_rank" /\ WithinHops({left_out}, d_max) \cap Range(causal_genes) = {}) =>
           scores[left_out] = RZero

\* a held-out seed that no other seed reaches within d_max hops has been ranked
C6_Witness ==
    /\ pc = "loo_for"
    /\ loo_i > 1
    /\ Len(loo_keys) >= 2
    /\ d_max >= 1
    /\ WithinHops({left_out}, d_max) \cap Range(loo_keys) = {left_out}
    /\ scores[left_out] = RZero
    /\ ranks_left_out[left_out] \in 1 .. interactome.n

\* C7: every scoring pass of leave_one_out sees the original seeds minus exactly
\* the held-out one, and between iterations and at the end the seed set is the
\* original one.
C7_SeedsRestored ==
    /\ pc \in {"loo_scores", "loo_rank"} =>
           /\ left_out \in Range(loo_keys)
           /\ Range(causal_genes) = Range(loo_keys) \ {left_out}
           /\ Len(causal_genes) = Len(loo_keys) - 1
    /\ pc \in {"loo_for", "loo_done"} =>
           /\ Range(causal_genes) = Range(loo_keys)
           /\ Len(causal_genes) = Len(loo_keys)

C7_Witness ==
    /\ pc = "loo_for"
    /\ loo_i = 2
    /\ Len(loo_keys) >= 2
    /\ causal_genes # loo_keys
    /\ Range(causal_genes) = Range(loo_keys)

\* C8: the rank of the held-out seed is 1 + the number of nodes scoring strictly
\* higher + the number of nodes with the same score and a lower node index.
C8_RankIsStable ==
    (pc = "loo_for" /\ loo_i > 1) =>
        ranks_left_out[left_out] =
            1 + Cardinality({j \in Nodes(interactome) : RLess(scores[left_out], scores[j])})
              + Cardinality({j \in Nodes(interactome) :
                                j < left_out /\ scores[j] = scores[left_out]})

C8_Witness ==
    /\ pc = "loo_for"
    /\ loo_i > 1
    /\ \E j \in Nodes(interactome) : RLess(scores[left_out], scores[j])
    /\ \E j \in Nodes(interactome) : j < left_out /\ scores[j] = scores[left_out]

\* the node identifiers of the first k lines read, in the order they first appear,
\* the source of a line before its destination
RECURSIVE FirstSeen(_)
FirstSeen(k) ==
    IF k = 0 THEN <<>>
    ELSE LET p == FirstSeen(k - 1)
             l == lines_read[k]
             p1 == IF l.nf # 3 \/ l.node1 \in Range(p) THEN p ELSE Append(p, l.node1)
         IN  IF l.nf # 3 \/ l.node2 \in Range(p1) THEN p1 ELSE Append(p1, l.node2)

\* C9: ENSG2idx is a bijection between the identifiers seen so far and 0..n-1,
\* indices follow the first-seen order (source before destination), and every
\* stored edge has both endpoints in [0, n).
C9_DenseIndex ==
    LET fs == FirstSeen(Len(lines_read))
        n == Cardinality(DOMAIN ENSG2idx)
    IN  /\ DOMAIN ENSG2idx = Range(fs)
        /\ {ENSG2idx[x] : x \in DOMAIN ENSG2idx} = 0 .. (n - 1)
        /\ \A x, y \in DOMAIN ENSG2idx : ENSG2idx[x] = ENSG2idx[y] => x = y
        /\ \A k \in 1 .. Len(fs) : ENSG2idx[fs[k]] = k - 1
        /\ num_nodes = n
        /\ \A k \in 1 .. Len(edge_list) :
               edge_list[k][1] \in 0 .. (n - 1) /\ edge_list[k][2] \in 0 .. (n - 1)

\* the second line brings a new source and a known destination
C9_Witness ==
    /\ ppc = "returned"
    /\ Len(lines_read) = 2
    /\ num_nodes = 3
    /\ lines_read[1].node1 # lines_read[1].node2
    /\ lines_read[2].node2 = lines_read[1].node1
    /\ ENSG2idx[lines_read[1].node1] = 0
    /\ ENSG2idx[lines_read[1].node2] = 1
    /\ ENSG2idx[lines_read[2].node1] = 2
    /\ Len(edge_list) >= 2

\* lines k < m give the two directions of one interaction with different weights
ConflictingDirections(k, m) ==
    /\ lines_read[k].nf = 3
    /\ lines_read[m].nf = 3
    /\ lines_read[k].node1 = lines_read[m].node2
    /\ lines_read[k].node2 = lines_read[m].node1
    /\ is_float(lines_read[k].weight_or_type)
    /\ is_float(lines_read[m].weight_or_type)
    /\ float_ne(float(lines_read[k].weight_or_type), float(lines_read[m].weight_or_type))

\* C10: in an undirected network, as long as parsing has not failed every stored
\* edge (u, v, w) has its reverse (v, u, w) stored; once the lines read give both
\* directions with different weights, parsing has failed.
C10_ReverseEdges ==
    ~directed =>
        /\ ppc # "raised" =>
               \A k \in 1 .. Len(edge_list) :
                   \E m \in 1 .. Len(edge_list) :
                       edge_list[m] = <<edge_list[k][2], edge_list[k][1], edge_list[k][3]>>
        /\ (weighted /\ \E k, m \in 1 .. Len(lines_read) : k < m /\ ConflictingDirections(k, m)) =>
               ppc = "raised"

\* one direction was given and its reverse synthesized, then a second interaction
\* was read
C10_Witness ==
    /\ ~directed
    /\ weighted
    /\ ppc = "returned"
    /\ Len(lines_read) = 2
    /\ lines_read[1].node1 # lines_read[1].node2
    /\ lines_read[1].weight_or_type = "0.5"
    /\ Len(edge_list) = 4
    /\ edge_list[2] = <<1, 0, <<1, 2>>>>

\* ---- C11
\* the ordered pair (source, dest) of a line whose two nodes are already known
line_pair(line) == <<ENSG2idx[line.node1], ENSG2idx[line.node2]>>

\* the line names an ordered pair that edge_list already holds
RepeatsStoredPair(line) ==
    /\ line.nf = 3
    /\ line.node1 \in DOMAIN ENSG2idx
    /\ line.node2 \in DOMAIN ENSG2idx
    /\ \E k \in DOMAIN edge_list : <<edge_list[k][1], edge_list[k][2]>> = line_pair(line)

\* the weight edge_list holds for an ordered pair it contains
stored_weight(pair) ==
    LET k == CHOOSE j \in DOMAIN edge_list : <<edge_list[j][1], edge_list[j][2]>> = pair
    IN  edge_list[k][3]

NoDuplicateEdges(el) ==
    \A j, k \in DOMAIN el : j # k => <<el[j][1], el[j][2]>> # <<el[k][1], el[k][2]>>

\* C11: edge_list never holds two edges with the same ordered (source, dest) pair; a
\* line that repeats a stored ordered pair with a weight equal to the stored one adds
\* nothing and parsing goes on, and one that repeats it with a different weight
\* (python's !=) raises and adds nothing
C11_NoDuplicateEdges ==
    [][/\ NoDuplicateEdges(edge_list')
       /\ \A line \in Lines :
            ( /\ lines_read' = Append(lines_read, line)
              /\ RepeatsStoredPair(line)
              /\ (weighted => is_float(line.weight_or_type)) )
            => LET weight == IF weighted THEN float(line.weight_or_type) ELSE <<1, 1>>
               IN  /\ edge_list' = edge_list
                   /\ ppc' = IF float_ne(stored_weight(line_pair(line)), weight)
                             THEN "raised" ELSE "reading"]_vars

\* an undirected interaction was read, then a line named its reverse pair, which is
\* already stored, with the stored weight, and nothing was added
C11_Witness ==
    /\ ~directed
    /\ ppc = "reading"
    /\ Len(lines_read) = 2
    /\ lines_read[1].nf = 3
    /\ lines_read[1].node1 # lines_read[1].node2
    /\ lines_read[2] = [lines_read[1] EXCEPT !.node1 = lines_read[1].node2,
                                             !.node2 = lines_read[1].node1]
    /\ Len(edge_list) = 2

\* ---- C12
\* C12: the edge list built by parse_interactome holds no edge from a node to itself
C12_NoSelfLoops ==
    \A k \in DOMAIN edge_list : edge_list[k][1] # edge_list[k][2]

\* ---- C13
\* C13: when the network is weighted every stored edge has a weight w with 0 < w <= 1
C13_WeightsInRange ==
    weighted =>
        \A k \in DOMAIN edge_list :
            /\ edge_list[k][3] # NaN
            /\ RLess(RZero, edge_list[k][3])
            /\ ~RLess(ROne, edge_list[k][3])

\* ---- C14
\* some line read so far has three fields and a second field that is not a float
NonFloatWeightRead ==
    \E k \in DOMAIN lines_read :
        lines_read[k].nf = 3 /\ ~is_float(lines_read[k].weight_or_type)

\* C14: when the network is unweighted every stored edge has weight 1.0 whatever the
\* second field holds; when it is weighted, a line whose second field is not a float
\* raises, so parse_interactome does not return
C14_WeightOrType ==
    /\ ~weighted => \A k \in DOMAIN edge_list : edge_list[k][3] = <<1, 1>>
    /\ (weighted /\ NonFloatWeightRead) => ppc = "raised"

\* a weighted parse stored an edge and then raised on the interaction type "pp"
C14_Witness ==
    /\ weighted
    /\ ppc = "raised"
    /\ Len(lines_read) = 2
    /\ lines_read[2].nf = 3
    /\ lines_read[2].weight_or_type = "pp"
    /\ Len(edge_list) >= 1

\* ---- C16
\* C16: when no requested seed is in the network (causal_genes is empty) the run does
\* not call calculate_scores
C16_EmptySeedsSkipScoring ==
    pc = "scored" => causal_genes # <<>>

\* ---- C17
\* node i has no edge in the interactome
Isolated(i) == \A e \in interactome.edges : i \notin e

\* C17: a node without edges gets the score 0 when it is not a seed, and only its
\* d = 0 term, alpha^0 * 1 = 1, when it is a seed
C17_IsolatedNodeScore ==
    pc \in {"scored", "loo_rank"} =>
        \A i \in Nodes(interactome) :
            Isolated(i) => scores[i] = IF SeedOf(i) = 1 THEN ROne ELSE RZero

\* scored: an isolated node that is not a seed, next to a seed that has an edge
C17_Witness ==
    /\ pc = "scored"
    /\ d_max >= 1
    /\ \E i, j \in Nodes(interactome) :
        /\ Isolated(i) /\ SeedOf(i) = 0 /\ scores[i] = RZero
        /\ ~Isolated(j) /\ SeedOf(j) = 1

\* ---- C18
\* C18: every call of calculate_scores, whatever calls came before it, returns what a
\* fresh run of get_adjacency_matrices and calculate_scores on the same network,
\* seeds, alpha and d_max returns. Stated by induction over the calls of a run: the
\* matrices handed to the first call are those of get_adjacency_matrices; no step
\* after that changes the network, d_max, alpha or the matrices; and each call
\* returns calculate_scores of the arguments it is given
C18_SameInputsSameScores ==
    /\ [](pc = "built" => adjacency_matrices = get_adjacency_matrices(interactome, d_max))
    /\ [][/\ pc \notin {"parsed", "idle"}
               => /\ adjacency_matrices' = adjacency_matrices
                  /\ interactome' = interactome
                  /\ d_max' = d_max
                  /\ alpha' = alpha
          /\ (pc \in {"built", "loo_scores"} /\ pc' \in {"scored", "loo_rank"})
               => scores' = calculate_scores(interactome, adjacency_matrices,
                                             causal_genes, alpha)]_vars

\* the second scoring call of a leave-one-out run returned, with a seed that has a
\* neighbour still in the dict
C18_Witness ==
    /\ pc = "loo_rank"
    /\ loo_i = 2
    /\ d_max >= 1
    /\ \E i \in Nodes(interactome) : SeedOf(i) = 0 /\ scores[i] # RZero

\* ---- C19
\* C19: a call of calculate_scores leaves interactome, adjacency_matrices and
\* causal_genes as they were, and once built the matrices are never changed, by no
\* scoring call and no leave-one-out iteration
C19_ScoringLeavesInputsUnchanged ==
    [][/\ (pc \in {"built", "loo_scores"} /\ pc' \in {"scored", "loo_rank"})
            => /\ interactome' = interactome
               /\ adjacency_matrices' = adjacency_matrices
               /\ causal_genes' = causal_genes
       /\ pc \notin {"parsed", "idle"}
            => adjacency_matrices' = adjacency_matrices /\ interactome' = interactome]_vars

\* the last scoring call of a leave-one-out run over three seeds returned
C19_Witness ==
    /\ pc = "loo_rank"
    /\ loo_i = 3
    /\ Len(adjacency_matrices) >= 2
    /\ adjacency_matrices = get_adjacency_matrices(interactome, d_max)

\* ---- C15
\* some line read from the causal genes file is a gene name that gene2ENSG maps to the
\* node of index idx
ListedAt(idx) ==
    \E k \in DOMAIN causal_lines_read :
        /\ causal_lines_read[k] \in DOMAIN gene2ENSG
        /\ gene2ENSG[causal_lines_read[k]] \in DOMAIN ENSG2idx
        /\ ENSG2idx[gene2ENSG[causal_lines_read[k]]] = idx

\* the name on line k is not a known gene, or its ENSG is not in the interactome
UnknownOrAbsent(k) ==
    \/ causal_lines_read[k] \notin DOMAIN gene2ENSG
    \/ gene2ENSG[causal_lines_read[k]] \notin DOMAIN ENSG2idx

C21_OneRowPerNode ==
    tpc \in {"raised", "returned", "returned_sorted"} =>
        /\ Len(stdout) = 1 + Cardinality(DOMAIN ENSG2idx)
        /\ \A k \in 0 .. (Cardinality(DOMAIN ENSG2idx) - 1) :
            /\ ENSG2idx[stdout[k + 2][1]] = k
            /\ stdout[k + 2][3] = scoresList[k + 1]

\* ---- C22
\* C22: when the leave-one-out iterations are run by concurrent workers, one per
\* seed, each on its own copy of the seed dict and sharing the network and the
\* matrices, then in every interleaving and once all workers are done, every seed
\* has the rank that the sequential leave_one_out gives it
C22_WorkersRanksAsSequential ==
    (pc = "workers" /\ \A w \in DOMAIN w_pc : w_pc[w] = "done") =>
        ranks_left_out = leave_one_out(interactome, adjacency_matrices, causal_genes,
                                       alpha, loo_keys, 1, <<>>)

\* two workers are done, with different ranks for their two seeds
C22_Witness ==
    /\ pc = "workers"
    /\ Cardinality(DOMAIN w_pc) = 2
    /\ \A w \in DOMAIN w_pc : w_pc[w] = "done"
    /\ \E v, w \in DOMAIN w_pc : ranks_left_out[v] = 2 /\ ranks_left_out[w] = 3

C24_MainReachesDone ==
    [][/\ (mpc' # mpc =>
              <<mpc, mpc'>> \in {<<"parse_interactome", "parse_uniprot">>,
                                 <<"parse_uniprot", "parse_causal_genes">>,
                                 <<"parse_causal_genes", "calculate_scores">>,
                                 <<"calculate_scores", "scores_to_TSV">>,
                                 <<"scores_to_TSV", "done">>}
              \/ mpc' = "error")
       /\ (mpc = "scores_to_TSV" => mpc' = "done")]_vars

\* C27: with directed false, a line that creates a new edge (u, v) never ends in the
\* "same interaction in both directions with different weights" error (the only error
\* raised after the edge was appended); the reverse key is already recorded only if
\* u = v, so for u # v the reverse edge is appended as well.
C27_ReverseConflictUnreached ==
    [][(~directed /\ Len(edge_list') > Len(edge_list)) =>
           /\ ppc' # "raised"
           /\ LET e == edge_list'[Len(edge_list) + 1]
              IN  e[1] # e[2] => Len(edge_list') = Len(edge_list) + 2]_vars

\* C28: in leave_one_out with 0 < alpha <= 1/2 and at least two seeds, in every scoring
\* pass each remaining seed scores at least 1 and the held-out seed scores less than 1,
\* so every rank recorded is at least the number of seeds and never 1.
C28_HeldOutRankedBelowSeeds ==
    (RLess(RZero, alpha) /\ ~RLess(<<1, 2>>, alpha) /\ Len(loo_keys) >= 2) =>
        /\ pc = "loo_rank" =>
               /\ \A s \in Range(causal_genes) : ~RLess(scores[s], ROne)
               /\ RLess(scores[left_out], ROne)
        /\ \A s \in DOMAIN ranks_left_out :
               /\ ranks_left_out[s] >= Len(loo_keys)
               /\ ranks_left_out[s] # 1

\* with alpha = 1/2 and the largest d_max, a held-out seed reached by the other seeds
\* (its score is positive) was ranked right after the seeds, ahead of another node
C28_Witness ==
    /\ pc = "loo_for"
    /\ alpha = <<1, 2>>
    /\ d_max = MaxD
    /\ Len(loo_keys) = 2
    /\ interactome.n = 3
    /\ left_out \in DOMAIN ranks_left_out
    /\ RLess(RZero, scores[left_out])
    /\ ranks_left_out[left_out] = 2

\* alpha^lo + ... + alpha^hi
RECURSIVE GeomSum(_, _, _)
GeomSum(a, lo, hi) == IF lo > hi THEN RZero ELSE RAdd(RPow(a, lo), GeomSum(a, lo + 1, hi))

\* C29: every score returned by calculate_scores over the matrices of
\* get_adjacency_matrices lies between 0 and alpha^0 + ... + alpha^d_max; a seed scores
\* at least 1 and a node that is not a seed at most alpha^1 + ... + alpha^d_max.
C29_ScoreBounds ==
    pc \in {"scored", "loo_rank"} =>
        \A i \in Nodes(interactome) :
            /\ ~RLess(scores[i], RZero)
            /\ ~RLess(GeomSum(alpha, 0, d_max), scores[i])
            /\ i \in Range(causal_genes) => ~RLess(scores[i], ROne)
            /\ i \notin Range(causal_genes) => ~RLess(GeomSum(alpha, 1, d_max), scores[i])

\* with d_max = 2 a seed scores more than 1 and a node that is not a seed scores
\* exactly alpha + alpha^2 (every walk of one or two hops from it ends on a seed)
C29_Witness ==
    /\ pc = "scored"
    /\ d_max = 2
    /\ alpha = <<3, 4>>
    /\ \E i \in Range(causal_genes) : RLess(ROne, scores[i])
    /\ \E i \in Nodes(interactome) \ Range(causal_genes) :
           scores[i] = GeomSum(alpha, 1, d_max)

\* the orders in which n lines can be written
Perms(n) == {p \in [1 .. n -> 1 .. n] : \A a, b \in 1 .. n : a # b => p[a] # p[b]}

\* the edges of a parsed network as (source identifier, destination identifier, weight)
named_edges(E2idx, el) ==
    {<<CHOOSE e \in DOMAIN E2idx : E2idx[e] = el[k][1],
       CHOOSE e \in DOMAIN E2idx : E2idx[e] = el[k][2],
       el[k][3]>> : k \in DOMAIN el}

\* the file made of the lines read so far, written in the order p
permuted_file(p) == [opens |-> TRUE, lines |-> [k \in 1 .. Len(lines_read) |-> lines_read[p[k]]]]

\* C30: the outcome of parse_interactome does not depend on the order of the lines: once
\* the parse has raised or returned, the same lines in any other order raise if and only
\* if these did, and otherwise give the same set of edges (source identifier, destination
\* identifier, weight).
C30_LineOrderIrrelevant ==
    ppc \in {"raised", "returned"} =>
        \A p \in Perms(Len(lines_read)) :
            \E r \in {parse_interactome(permuted_file(p), weighted, directed)} :
                /\ r.err <=> ppc = "raised"
                /\ ~r.err => named_edges(r.ENSG2idx, r.edge_list) = named_edges(ENSG2idx, edge_list)

\* two lines with a weight were parsed, and the same lines in the other order give the
\* nodes other indices and the edges another order
C30_Witness ==
    /\ ppc = "returned"
    /\ weighted
    /\ Len(lines_read) = 2
    /\ lines_read[1].weight_or_type # lines_read[2].weight_or_type
    /\ \E r \in {parse_interactome(permuted_file(<<2, 1>>), weighted, directed)} :
           /\ ~r.err
           /\ r.ENSG2idx # ENSG2idx
           /\ r.edge_list # edge_list

\* the distinct interactors of a protein in the list of interactions
Interactors(protein) ==
    {q \in PrimACs \ {protein} :
        \E k \in DOMAIN PPIs : PPIs[k] \in {<<protein, q>>, <<q, protein>>}}

\* C25: every line printed by Interactome_Uniprot2ENSG is free of hubs and of self-loops:
\* neither protein of the interaction has more interactors than the hub limit, and the
\* two ENSG printed are different, whatever the list and the Uniprot-to-ENSG mapping.
C25_NoHubsNoSelfLoops ==
    [][stdout' # stdout =>
           LET PPI == PPIs[ppi_i]
               line == stdout'[Len(stdout')]
           IN  /\ Cardinality(Interactors(PPI[1])) <= HubInteractors
               /\ Cardinality(Interactors(PPI[2])) <= HubInteractors
               /\ line[1] # line[3]]_vars

\* the Primary ACs of the lines read that list the gene name
PrimACsOf(geneName) ==
    {uniprot_lines_read[k].primAC :
        k \in {j \in DOMAIN uniprot_lines_read : geneName \in Range(uniprot_lines_read[j].geneNames)}}

\* C26: after parse_uniprot_file, every gene name associated with more than one Primary AC
\* is mapped to "-1" in geneName2primAC, so parse_interaction_file never resolves such a
\* gene name to a protein.
C26_AmbiguousGeneNameUnresolved ==
    /\ upc \in {"returned", "resolved"} =>
           \A geneName \in UniprotGeneNames :
               Cardinality(PrimACsOf(geneName)) > 1 => geneName2primAC[geneName] = "-1"
    /\ upc = "resolved" =>
           \A k \in 1 .. 2 :
               Cardinality(PrimACsOf(proteins.names[k])) > 1 => proteins.primACs[k] = ""

====
